---- MODULE Spec2Model ----
(***************************************************************************)
(* Model of the incremental constraint-propagation engine of               *)
(* space_ship_builder_v5 (src/projects/space_ship_builder_v5/src/ship.rs): *)
(* one chunk of node cells, a coarse block grid, the three work queues     *)
(* to_reset / to_propergate / to_collapse, the was_reset set, and the      *)
(* public operations place_block and tick.                                 *)
(***************************************************************************)
EXTENDS Integers, Sequences, FiniteSets, TLC

(***************************************************************************)
(* Sizes.  node_size is the argument of Ship::new; the model builds a      *)
(* small ship.  MaxEdits and MaxBudget bound the inputs of a behaviour.     *)
(***************************************************************************)
node_size == 4

MaxEdits == 3

MaxBudget == 2

LiveEdits == 2

ReloadEdits == 1

MaxExtent == 3

MaxChunk == 3

MaxCoord == 6

BLOCK_INDEX_EMPTY == 0

\* NODE_INDEX_NONE is NodeIndex::MAX, all bits set: written -1 here
NODE_INDEX_NONE == -1

(***************************************************************************)
(* Vectors (glam IVec3) are triples.                                       *)
(***************************************************************************)
IVec3(x, y, z) == <<x, y, z>>

ZERO == IVec3(0, 0, 0)

VAdd(a, b) == IVec3(a[1] + b[1], a[2] + b[2], a[3] + b[3])

VScale(a, k) == IVec3(a[1] * k, a[2] * k, a[3] * k)

element_product(a) == a[1] * a[2] * a[3]

\* Rust integer division truncates toward zero
TruncDiv(a, b) == IF a >= 0 THEN a \div b ELSE -((-a) \div b)

\* Rust remainder keeps the sign of the dividend
TruncRem(a, b) == a - b * TruncDiv(a, b)

(***************************************************************************)
(* math.rs                                                                 *)
(***************************************************************************)
\* to_1d, on unsigned components
to_1d(pos, max) == (pos[3] * max[1] * max[2]) + (pos[2] * max[1]) + pos[1]

\* to_3d, on unsigned components
to_3d(i, max) ==
    LET z  == i \div (max[1] * max[2])
        i2 == i - z * max[1] * max[2]
        y  == i2 \div max[1]
        x  == i2 % max[1]
    IN  IVec3(x, y, z)

to_1d_i(pos, max) == (pos[3] * max[1] * max[2]) + (pos[2] * max[1]) + pos[1]

to_3d_i_row_by_height(i, max) ==
    LET z  == TruncDiv(i, max[1] * max[2])
        i2 == i - z * max[1] * max[2]
        y  == TruncDiv(i2, max[2])
        x  == TruncRem(i2, max[2])
    IN  IVec3(x, y, z)

to_3d_i(i, max) ==
    LET z  == TruncDiv(i, max[1] * max[2])
        i2 == i - z * max[1] * max[2]
        y  == TruncDiv(i2, max[1])
        x  == TruncRem(i2, max[1])
    IN  IVec3(x, y, z)

(***************************************************************************)
(* Ship::new: the derived sizes and masks.                                 *)
(***************************************************************************)
RECURSIVE trailing_zeros(_)
trailing_zeros(n) == IF n % 2 = 1 THEN 0 ELSE 1 + trailing_zeros(n \div 2)

blocks_per_chunk == IVec3(node_size \div 2, node_size \div 2, node_size \div 2)

nodes_per_chunk == IVec3(node_size, node_size, node_size)

chunk_voxel_size == IVec3(node_size, node_size, node_size)

node_index_bits_short == trailing_zeros(element_product(nodes_per_chunk)) - 1

node_index_bits == trailing_zeros(element_product(nodes_per_chunk)) + 1

node_index_mask == element_product(nodes_per_chunk) - 1

block_length == element_product(blocks_per_chunk)

node_length == element_product(nodes_per_chunk)

node_size_plus_padding == IVec3(node_size + 2, node_size + 2, node_size + 2)

node_length_plus_padding == element_product(node_size_plus_padding)

\* p & chunk_pos_mask, chunk_pos_mask = !(node_size - 1), in two's complement:
\* the low bits are cleared, which is the multiple of node_size at or below p
AndChunkPosMask(p) == p - (p % node_size)

\* p & in_chunk_pos_mask, in_chunk_pos_mask = node_size - 1: the low bits
AndInChunkPosMask(p) == p % node_size

Neg(p) == IF p < 0 THEN 1 ELSE 0

get_chunk_pos(pos) ==
    IVec3(AndChunkPosMask(pos[1]) - node_size * Neg(pos[1]),
          AndChunkPosMask(pos[2]) - node_size * Neg(pos[2]),
          AndChunkPosMask(pos[3]) - node_size * Neg(pos[3]))

has_chunk(chunk_pos) == chunk_pos = ZERO

Ok(v) == [ok |-> TRUE, val |-> v]

Err == [ok |-> FALSE, val |-> 0]

get_chunk_index_any(pos) == Ok(0)

get_chunk_index(pos) == IF ~has_chunk(get_chunk_pos(pos)) THEN Err ELSE Ok(0)

get_node_pos_from_block_pos(pos) == VScale(pos, 2)

get_in_chunk_pos(pos) ==
    IVec3(AndInChunkPosMask(pos[1]), AndInChunkPosMask(pos[2]), AndInChunkPosMask(pos[3]))

get_block_index(pos) ==
    LET p == get_in_chunk_pos(pos)
    IN  to_1d_i(IVec3(TruncDiv(p[1], 2), TruncDiv(p[2], 2), TruncDiv(p[3], 2)),
                blocks_per_chunk)

get_node_index(pos) == to_1d_i(get_in_chunk_pos(pos), nodes_per_chunk)

to_world_node_index(chunk_index, node_index) ==
    node_index + chunk_index * (2 ^ node_index_bits)

\* (w >> node_index_bits, w & node_index_mask); the mask is 2^k - 1
from_world_node_index(w) ==
    <<w \div (2 ^ node_index_bits), w % (node_index_mask + 1)>>

\* the only chunk sits at IVec3::ZERO (Ship::new, add_chunk)
chunk_pos_of(chunk_index) == ZERO

pos_from_world_node_index(chunk_index, node_index) ==
    VAdd(chunk_pos_of(chunk_index), to_3d_i(node_index, nodes_per_chunk))

node_index_to_node_index_plus_padding(node_index) ==
    to_1d_i(VAdd(to_3d_i(node_index, nodes_per_chunk), IVec3(1, 1, 1)),
            node_size_plus_padding)

(***************************************************************************)
(* node.rs: node identities and their packed form.                         *)
(***************************************************************************)
NodeID(index, rot) == [index |-> index, rot |-> rot]

none == NodeID(NODE_INDEX_NONE, 0)

is_none(node_id) == node_id.index = NODE_INDEX_NONE

\* impl Into<u32> for NodeID: ((index as u32) << 7) + rot, 0 for none.
\* The shift keeps the low 25 bits of the index; the identities of the rule
\* tables below have indices far below 2^24, so nothing is cut off.
NodeBits(node_id) ==
    IF is_none(node_id) THEN 0
    ELSE ((node_id.index % (2 ^ 24)) * 128) + node_id.rot

(***************************************************************************)
(* IndexQueue (crate index_queue): a FIFO of unique indices.               *)
(***************************************************************************)
contains(q, i) == \E k \in 1..Len(q) : q[k] = i

push_back_always(q, i) == Append(q, i)

push_back(q, i) == IF contains(q, i) THEN q ELSE Append(q, i)

RECURSIVE push_all(_, _)
push_all(q, items) ==
    IF items = <<>> THEN q ELSE push_all(push_back(q, Head(items)), Tail(items))

(***************************************************************************)
(* The rule library consumed by the engine (Rules).  A table holds, per    *)
(* rule index, the node identity, its block-requirement alternatives       *)
(* (each a list of (offset, block index) with a priority) and its node     *)
(* requirements (offset, admitted identities); and the affected-by         *)
(* offsets per block index and per node identity.                          *)
(***************************************************************************)
NegV(o) == IVec3(-o[1], -o[2], -o[3])

RECURSIVE Flatten(_)
Flatten(ss) == IF ss = <<>> THEN <<>> ELSE Head(ss) \o Flatten(Tail(ss))

RECURSIVE Dedup(_)
Dedup(q) == IF q = <<>> THEN <<>> ELSE push_all(<<Head(q)>>, Dedup(Tail(q)))

\* every offset a block requirement of the table tests, seen from the block
BlockReqOffsets(block_rules) ==
    Flatten([k \in 1..Len(block_rules) |->
        Flatten([j \in 1..Len(block_rules[k]) |->
            [m \in 1..Len(block_rules[k][j].req) |-> NegV(block_rules[k][j].req[m][1])]])])

\* the cells whose candidates test the position of a block: affected_by_block
AffectedByBlock(block_rules) == Dedup(BlockReqOffsets(block_rules))

\* the cells with a candidate whose node requirement names node_id: affected_by_node
AffectedByNode(node_rules, node_id) ==
    Dedup(Flatten([k \in 1..Len(node_rules) |->
        Flatten([j \in 1..Len(node_rules[k]) |->
            IF \E m \in 1..Len(node_rules[k][j][2]) : node_rules[k][j][2][m] = node_id
            THEN <<NegV(node_rules[k][j][1])>> ELSE <<>>])]))

BlockIndices == 0..1

RuleTable(ids, block_rules, node_rules) ==
    [map_rules_index_to_node_id |-> ids,
     block_rules |-> block_rules,
     node_rules |-> node_rules,
     affected_by_block |-> [b \in BlockIndices |-> AffectedByBlock(block_rules)],
     affected_by_node |->
        [n \in {ids[k] : k \in 1..Len(ids)} |-> AffectedByNode(node_rules, n)]]

Alt(req, prio) == [req |-> req, prio |-> prio]

X0 == NodeID(1, 0)

X3 == NodeID(2, 0)

V == NodeID(3, 0)

P == NodeID(4, 0)

Q == NodeID(5, 1)

\* TableA: X0 sits on a block 1 and needs a supported left neighbour (or the
\* chunk border); X3 and V sit right of a block 1, and X3, the higher
\* priority, needs X0 to its right.
TableA ==
    RuleTable(
        <<X0, X3, V>>,
        << <<Alt(<< <<IVec3(0, 0, 0), 1>> >>, 1)>>,
           <<Alt(<< <<IVec3(-1, 0, 0), 1>> >>, 2)>>,
           <<Alt(<< <<IVec3(-1, 0, 0), 1>> >>, 1)>> >>,
        << << <<IVec3(-1, 0, 0), <<X3, V, none>> >> >>,
           << <<IVec3(1, 0, 0), <<X0>> >> >>,
           << >> >>)

\* TableB: TableA and, one row up, P above a block 1 needing Q to its right
\* and Q needing an X3 to its left, which that row never holds: Q is
\* admitted by reset and dropped by propergate, and P follows it.
TableB ==
    RuleTable(
        <<X0, X3, V, P, Q>>,
        << <<Alt(<< <<IVec3(0, 0, 0), 1>> >>, 1)>>,
           <<Alt(<< <<IVec3(-1, 0, 0), 1>> >>, 2)>>,
           <<Alt(<< <<IVec3(-1, 0, 0), 1>> >>, 1)>>,
           <<Alt(<< <<IVec3(0, -1, 0), 1>> >>, 1)>>,
           <<Alt(<< <<IVec3(-1, -1, 0), 1>> >>, 1)>> >>,
        << << <<IVec3(-1, 0, 0), <<X3, V, none>> >> >>,
           << <<IVec3(1, 0, 0), <<X0>> >> >>,
           << >>,
           << <<IVec3(1, 0, 0), <<Q>> >> >>,
           << <<IVec3(-1, 0, 0), <<X3>> >> >> >>)

\* the cells with a block requirement that names block_index, seen from the
\* block: an affected-by list kept per block index
AffectedByBlockIndex(block_rules, block_index) ==
    Dedup(Flatten([k \in 1..Len(block_rules) |->
        Flatten([j \in 1..Len(block_rules[k]) |->
            Flatten([m \in 1..Len(block_rules[k][j].req) |->
                IF block_rules[k][j].req[m][2] = block_index
                THEN <<NegV(block_rules[k][j].req[m][1])>> ELSE <<>>])])]))

\* a table whose affected_by_block[b] lists the cells that test for block b
RuleTablePerBlock(ids, block_rules, node_rules) ==
    [RuleTable(ids, block_rules, node_rules) EXCEPT
        !.affected_by_block =
            [b \in BlockIndices |-> AffectedByBlockIndex(block_rules, b)]]

E == NodeID(6, 0)

\* TableC: X0 sits on a block 1; E, an end cap, sits right of a block 1 with
\* no block beyond it.  No node requirements.
TableC ==
    RuleTablePerBlock(
        <<X0, E>>,
        << <<Alt(<< <<IVec3(0, 0, 0), 1>> >>, 1)>>,
           <<Alt(<< <<IVec3(-1, 0, 0), 1>>, <<IVec3(1, 0, 0), BLOCK_INDEX_EMPTY>> >>, 1)>> >>,
        << << >>, << >> >>)

G == NodeID(7, 0)

\* TableD: TableC and G, which sits on a block 1 that has a block 1 as its
\* right neighbour, with the priority of X0.
TableD ==
    RuleTablePerBlock(
        <<X0, E, G>>,
        << <<Alt(<< <<IVec3(0, 0, 0), 1>> >>, 1)>>,
           <<Alt(<< <<IVec3(-1, 0, 0), 1>>, <<IVec3(1, 0, 0), BLOCK_INDEX_EMPTY>> >>, 1)>>,
           <<Alt(<< <<IVec3(0, 0, 0), 1>>, <<IVec3(2, 0, 0), 1>> >>, 1)>> >>,
        << << >>, << >>, << >> >>)

RuleTables == {TableA}

(***************************************************************************)
(* Ship and ShipChunk.  Arrays are functions over 0..len-1; a cell's       *)
(* Option<Vec<(NodeID, usize)>> is NoneList or SomeList(list).             *)
(***************************************************************************)
NoneList == [some |-> FALSE, list |-> <<>>]

SomeList(l) == [some |-> TRUE, list |-> l]

\* Option::take().unwrap_or(Vec::new())
take_or_empty(opt) == IF opt.some THEN opt.list ELSE <<>>

NewShip_occupied ==
    [blocks        |-> [i \in 0..(block_length - 1) |-> BLOCK_INDEX_EMPTY],
     nodes         |-> [i \in 0..(node_length - 1) |-> NoneList],
     node_id_bits  |-> [i \in 0..(node_length - 1) |-> 0],
     render_nodes  |-> [i \in 0..(node_length_plus_padding - 1) |-> TRUE],
     to_reset      |-> <<>>,
     was_reset     |-> <<>>,
     to_propergate |-> <<>>,
     to_collapse   |-> <<>>]

\* Ship::new followed by add_chunk(IVec3::ZERO)
NewShip ==
    [blocks        |-> [i \in 0..(block_length - 1) |-> BLOCK_INDEX_EMPTY],
     nodes         |-> [i \in 0..(node_length - 1) |-> NoneList],
     node_id_bits  |-> [i \in 0..(node_length - 1) |-> 0],
     render_nodes  |-> [i \in 0..(node_length_plus_padding - 1) |-> FALSE],
     to_reset      |-> <<>>,
     was_reset     |-> <<>>,
     to_propergate |-> <<>>,
     to_collapse   |-> <<>>]

\* the in-chunk cells pos + offset, as world node indices, in offset order
AffectedCells(pos, offsets) ==
    Flatten([k \in 1..Len(offsets) |->
        LET affected_pos == VAdd(pos, offsets[k])
            chunk_index  == get_chunk_index(affected_pos)
        IN  IF ~chunk_index.ok THEN <<>>
            ELSE <<to_world_node_index(chunk_index.val, get_node_index(affected_pos))>>])

push_reset_and_collapse(s, r, block_index, pos) ==
    IF block_index = BLOCK_INDEX_EMPTY THEN s
    ELSE [s EXCEPT !.to_reset =
                push_all(@, AffectedCells(pos, r.affected_by_block[block_index])),
                   !.to_collapse =
                push_all(@, AffectedCells(pos, r.affected_by_block[block_index]))]

\* the closure push_reset of place_block
push_reset(s, r, block_index, pos) ==
    IF block_index = BLOCK_INDEX_EMPTY THEN s
    ELSE [s EXCEPT !.to_reset =
            push_all(@, AffectedCells(pos, r.affected_by_block[block_index]))]

unchanged_block_never(old_block_index, block_index) == FALSE

\* if old_block_index == block_index { return Ok(()) }
unchanged_block(old_block_index, block_index) == old_block_index = block_index

\* Ship::place_block without the assignment of a fresh was_reset
place_block_keep_was_reset(s, r, block_pos, block_index) ==
    LET pos         == get_node_pos_from_block_pos(block_pos)
        chunk_index == get_chunk_index(pos)
        in_chunk_block_index == get_block_index(pos)
    IN  IF ~chunk_index.ok THEN [ship |-> s, ok |-> FALSE]
        ELSE LET old_block_index == s.blocks[in_chunk_block_index]
             IN  IF unchanged_block(old_block_index, block_index)
                 THEN [ship |-> s, ok |-> TRUE]
                 ELSE LET s1 == [s EXCEPT !.blocks[in_chunk_block_index] = block_index]
                          s2 == push_reset(s1, r, old_block_index, pos)
                          s3 == push_reset(s2, r, block_index, pos)
                      IN  [ship |-> s3, ok |-> TRUE]

\* Ship::place_block: the ship after the call and the Result
place_block(s, r, block_pos, block_index) ==
    LET pos         == get_node_pos_from_block_pos(block_pos)
        chunk_index == get_chunk_index(pos)
        in_chunk_block_index == get_block_index(pos)
    IN  IF ~chunk_index.ok THEN [ship |-> s, ok |-> FALSE]
        ELSE LET old_block_index == s.blocks[in_chunk_block_index]
             IN  IF unchanged_block(old_block_index, block_index)
                 THEN [ship |-> s, ok |-> TRUE]
                 ELSE LET s1 == [s EXCEPT !.blocks[in_chunk_block_index] = block_index]
                          s2 == push_reset(s1, r, old_block_index, pos)
                          s3 == push_reset(s2, r, block_index, pos)
                      IN  [ship |-> [s3 EXCEPT !.was_reset = <<>>], ok |-> TRUE]

(***************************************************************************)
(* Ship::propergate_node_world_index: the admissible list of a cell.       *)
(***************************************************************************)
Aligned(test_pos) ==
    /\ TruncRem(test_pos[1], 2) = 0
    /\ TruncRem(test_pos[2], 2) = 0
    /\ TruncRem(test_pos[3], 2) = 0

BlockFound_any(s, test_pos, id) == TRUE

BlockFound_outside_any(s, test_pos, id) ==
    LET test_chunk_index == get_chunk_index(test_pos)
        test_block_index == get_block_index(test_pos)
    IN  IF ~test_chunk_index.ok THEN TRUE
        ELSE id = s.blocks[test_block_index]

\* one (offset, id) of a block requirement, at an aligned test position
BlockFound(s, test_pos, id) ==
    LET test_chunk_index == get_chunk_index(test_pos)
        test_block_index == get_block_index(test_pos)
    IN  IF ~test_chunk_index.ok THEN id = BLOCK_INDEX_EMPTY
        ELSE id = s.blocks[test_block_index]

\* accepted && check_performed of one alternative
ReqAccepted(s, pos, req) ==
    LET checked == {m \in 1..Len(req) : Aligned(VAdd(pos, req[m][1]))}
    IN  /\ checked # {}
        /\ \A m \in checked : BlockFound(s, VAdd(pos, req[m][1]), req[m][2])

FirstAccepted_unchecked(s, pos, block_reqs) == IF block_reqs = <<>> THEN 0 ELSE 1

\* the alternatives are tried in order and the loop breaks at the first accepted one
FirstAccepted(s, pos, block_reqs) ==
    LET acc == {j \in 1..Len(block_reqs) : ReqAccepted(s, pos, block_reqs[j].req)}
    IN  IF acc = {} THEN 0 ELSE CHOOSE j \in acc : \A i \in acc : j <= i

Max(a, b) == IF a >= b THEN a ELSE b

NodeFound_flag_inverted(s, pos, offset, ids, reset_nodes) ==
    LET test_pos == VAdd(pos, offset)
        test_chunk_index == get_chunk_index(test_pos)
        test_node_index  == get_node_index(test_pos)
    IN  IF ~test_chunk_index.ok
        THEN \E m \in 1..Len(ids) : is_none(ids[m])
        ELSE LET test_node == s.nodes[test_node_index]
             IN  IF ~reset_nodes \/ ~test_node.some THEN TRUE
                 ELSE \E t \in 1..Len(test_node.list) :
                        \E m \in 1..Len(ids) : ids[m] = test_node.list[t][1]

\* one (offset, ids) of the node requirements
NodeFound(s, pos, offset, ids, reset_nodes) ==
    LET test_pos == VAdd(pos, offset)
        test_chunk_index == get_chunk_index(test_pos)
        test_node_index  == get_node_index(test_pos)
    IN  IF ~test_chunk_index.ok
        THEN \E m \in 1..Len(ids) : is_none(ids[m])
        ELSE LET test_node == s.nodes[test_node_index]
             IN  IF reset_nodes \/ ~test_node.some THEN TRUE
                 ELSE \E t \in 1..Len(test_node.list) :
                        \E m \in 1..Len(ids) : ids[m] = test_node.list[t][1]

NodeAccepted(s, pos, node_req, reset_nodes) ==
    \A j \in 1..Len(node_req) :
        NodeFound(s, pos, node_req[j][1], node_req[j][2], reset_nodes)

propergate_node_world_index(s, r, node_world_index, reset_nodes) ==
    LET cn  == from_world_node_index(node_world_index)
        pos == pos_from_world_node_index(cn[1], cn[2])
    IN  Flatten([k \in 1..Len(r.map_rules_index_to_node_id) |->
            LET first == FirstAccepted(s, pos, r.block_rules[k])
            IN  IF first = 0 THEN <<>>
                ELSE IF ~NodeAccepted(s, pos, r.node_rules[k], reset_nodes) THEN <<>>
                ELSE << <<r.map_rules_index_to_node_id[k],
                          Max(0, r.block_rules[k][first].prio)>> >>])

\* the cells push_neigbors visits for the identities of the old, then the new list
NeighborCells(r, pos, old_ids, new_ids) ==
    Flatten([k \in 1..(Len(old_ids) + Len(new_ids)) |->
        LET node_id == IF k <= Len(old_ids) THEN old_ids[k][1]
                       ELSE new_ids[k - Len(old_ids)][1]
        IN  AffectedCells(pos, r.affected_by_node[node_id])])

push_neigbors_reset_all(s, cells) == [s EXCEPT !.to_reset = push_all(@, cells)]

\* push_neigbors of reset: to_reset unless was_reset holds the cell, then to_propergate
RECURSIVE push_neigbors_reset(_, _)
push_neigbors_reset(s, cells) ==
    IF cells = <<>> THEN s
    ELSE LET w == Head(cells)
         IN  push_neigbors_reset(
                 IF ~contains(s.was_reset, w)
                 THEN [s EXCEPT !.to_reset = push_back(@, w)]
                 ELSE [s EXCEPT !.to_propergate = push_back(@, w)],
                 Tail(cells))

\* if new_possible_node_ids != old_possible_node_ids, in reset
reset_changed_never(new_possible_node_ids, old_possible_node_ids) == FALSE

reset_changed_always(new_possible_node_ids, old_possible_node_ids) == TRUE

reset_changed(new_possible_node_ids, old_possible_node_ids) ==
    new_possible_node_ids # old_possible_node_ids

\* Ship::reset
reset(s, r, debug) ==
    LET node_world_index == Head(s.to_reset)
        s0  == [s EXCEPT !.to_reset = Tail(@)]
        cn  == from_world_node_index(node_world_index)
        chunk_index == cn[1]
        node_index  == cn[2]
        pos == pos_from_world_node_index(chunk_index, node_index)
        new_possible_node_ids ==
            propergate_node_world_index(s0, r, node_world_index, TRUE)
        old_possible_node_ids == take_or_empty(s0.nodes[node_index])
        s1  == push_neigbors_reset(s0,
                   NeighborCells(r, pos, old_possible_node_ids, new_possible_node_ids))
        s2  == IF debug
               THEN [s1 EXCEPT !.render_nodes[
                         node_index_to_node_index_plus_padding(node_index)] = TRUE]
               ELSE s1
        s3  == [s2 EXCEPT !.node_id_bits[node_index] = NodeBits(none),
                          !.was_reset = push_back(@, node_world_index),
                          !.to_propergate = push_back(@, node_world_index),
                          !.to_collapse = push_back(@, node_world_index)]
        s4  == IF reset_changed(new_possible_node_ids, old_possible_node_ids)
               THEN s3 ELSE s0
    IN  [s4 EXCEPT !.nodes[node_index] = SomeList(new_possible_node_ids)]

propergate_changed_never(old_possible_node_ids, new_possible_node_ids) == FALSE

propergate_changed_always(old_possible_node_ids, new_possible_node_ids) == TRUE

\* if old_possible_node_ids != new_possible_node_ids, in propergate
propergate_changed(old_possible_node_ids, new_possible_node_ids) ==
    old_possible_node_ids # new_possible_node_ids

\* Ship::propergate
propergate(s, r) ==
    LET node_world_index == Head(s.to_propergate)
        s0  == [s EXCEPT !.to_propergate = Tail(@)]
        cn  == from_world_node_index(node_world_index)
        chunk_index == cn[1]
        node_index  == cn[2]
        pos == pos_from_world_node_index(chunk_index, node_index)
        new_possible_node_ids ==
            propergate_node_world_index(s0, r, node_world_index, FALSE)
        old_possible_node_ids == take_or_empty(s0.nodes[node_index])
        s1  == [s0 EXCEPT !.to_propergate = push_all(@,
                   NeighborCells(r, pos, old_possible_node_ids, new_possible_node_ids))]
        s2  == [s1 EXCEPT !.to_collapse = push_back(@, node_world_index)]
        s3  == IF propergate_changed(old_possible_node_ids, new_possible_node_ids)
               THEN s2 ELSE s0
    IN  [s3 EXCEPT !.nodes[node_index] = SomeList(new_possible_node_ids)]

MaxByPrio_first_maximal(list) ==
    CHOOSE k \in 1..Len(list) :
        /\ \A j \in 1..Len(list) : list[j][2] <= list[k][2]
        /\ \A j \in 1..(k - 1) : list[j][2] < list[k][2]

MaxByPrio_last_entry(list) == Len(list)

\* Iterator::max_by over the priorities: the last of the maximal entries
MaxByPrio(list) ==
    CHOOSE k \in 1..Len(list) :
        /\ \A j \in 1..Len(list) : list[j][2] <= list[k][2]
        /\ \A j \in (k + 1)..Len(list) : list[j][2] < list[k][2]

\* Ship::collapse followed by a re-queue of the chosen identity's neighbours
collapse_cascade(s) ==
    LET node_world_index == Head(s.to_collapse)
        s0  == [s EXCEPT !.to_collapse = Tail(@)]
        cn  == from_world_node_index(node_world_index)
        node_index == cn[2]
        node_index_plus_padding == node_index_to_node_index_plus_padding(node_index)
        possible_node_ids == take_or_empty(s0.nodes[node_index])
        node_id == IF possible_node_ids = <<>> THEN none
                   ELSE possible_node_ids[MaxByPrio(possible_node_ids)][1]
        cells == IF NodeBits(node_id) = s.node_id_bits[node_index] \/ is_none(node_id)
                 THEN <<>>
                 ELSE AffectedCells(pos_from_world_node_index(cn[1], node_index),
                                    TableA.affected_by_node[node_id])
    IN  [s0 EXCEPT !.node_id_bits[node_index] = NodeBits(node_id),
                   !.render_nodes[node_index_plus_padding] = ~is_none(node_id),
                   !.nodes[node_index] = SomeList(possible_node_ids),
                   !.to_collapse = push_all(@, cells)]

\* Ship::collapse
collapse(s) ==
    LET node_world_index == Head(s.to_collapse)
        s0  == [s EXCEPT !.to_collapse = Tail(@)]
        cn  == from_world_node_index(node_world_index)
        node_index == cn[2]
        node_index_plus_padding == node_index_to_node_index_plus_padding(node_index)
        possible_node_ids == take_or_empty(s0.nodes[node_index])
        node_id == IF possible_node_ids = <<>> THEN none
                   ELSE possible_node_ids[MaxByPrio(possible_node_ids)][1]
    IN  [s0 EXCEPT !.node_id_bits[node_index] = NodeBits(node_id),
                   !.render_nodes[node_index_plus_padding] = ~is_none(node_id),
                   !.nodes[node_index] = SomeList(possible_node_ids)]

(***************************************************************************)
(* Ship::tick.  The loop runs actions_per_tick times; each iteration runs  *)
(* the operation next_op selects, or returns when no queue holds work.     *)
(* The result carries, besides the returned pair, the list of operations   *)
(* the call executed (ops), each with the queues as they were found.       *)
(***************************************************************************)
Drained(s) == s.to_reset = <<>> /\ s.to_propergate = <<>> /\ s.to_collapse = <<>>

next_op_collapse_first(s) ==
    IF s.to_reset # <<>> THEN "reset"
    ELSE IF s.to_collapse # <<>> THEN "collapse"
    ELSE IF s.to_propergate # <<>> THEN "propergate"
    ELSE "return"

\* the if / else-if chain of the loop body
next_op(s) ==
    IF s.to_reset # <<>> THEN "reset"
    ELSE IF s.to_propergate # <<>> THEN "propergate"
    ELSE IF s.to_collapse # <<>> THEN "collapse"
    ELSE "return"

new_changed_chunks_marked == <<0>>

\* let mut changed_chunks = Vec::new()
new_changed_chunks == <<>>

changed_after_any_write(op, changed_chunks) ==
    IF op \in {"collapse", "propergate"} THEN <<0>> ELSE changed_chunks

\* changed_chunks = vec![0] after a collapse
changed_after(op, changed_chunks) ==
    IF op = "collapse" THEN <<0>> ELSE changed_chunks

loop_count_inclusive(actions_per_tick) == actions_per_tick + 1

\* the range 0..actions_per_tick of the for loop
loop_count(actions_per_tick) == actions_per_tick

loop_done_result_queues(s) == ~Drained(s)

\* Ok((true, changed_chunks)) once the loop has run out
loop_done_result(s) == TRUE

run_op(s, r, debug, op) ==
    IF op = "reset" THEN reset(s, r, debug)
    ELSE IF op = "propergate" THEN propergate(s, r)
    ELSE collapse(s)

OpEntry(op, s) ==
    [op    |-> op,
     cell  |-> IF op = "reset" THEN Head(s.to_reset)
               ELSE IF op = "propergate" THEN Head(s.to_propergate)
               ELSE Head(s.to_collapse),
     reset_len |-> Len(s.to_reset),
     prop_len  |-> Len(s.to_propergate),
     coll_len  |-> Len(s.to_collapse)]

RECURSIVE tick_loop(_, _, _, _, _, _)
tick_loop(s, r, debug, n, changed_chunks, ops) ==
    IF n = 0
    THEN [ship |-> s, more_work |-> loop_done_result(s),
          changed_chunks |-> changed_chunks, ops |-> ops]
    ELSE LET op == next_op(s)
         IN  IF op = "return"
             THEN [ship |-> s, more_work |-> FALSE,
                   changed_chunks |-> changed_chunks, ops |-> ops]
             ELSE tick_loop(run_op(s, r, debug, op), r, debug, n - 1,
                            changed_after(op, changed_chunks),
                            Append(ops, OpEntry(op, s)))

tick_pop_past_budget(s, r, actions_per_tick, debug) ==
    LET res == tick_loop(s, r, debug, loop_count(actions_per_tick),
                         new_changed_chunks, <<>>)
    IN  IF res.more_work /\ res.ship.to_propergate # <<>>
        THEN [res EXCEPT !.ship.to_propergate = Tail(@)]
        ELSE res

\* Ship::tick
tick(s, r, actions_per_tick, debug) ==
    tick_loop(s, r, debug, loop_count(actions_per_tick), new_changed_chunks, <<>>)

(***************************************************************************)
(* The state machine: one ship driven by its caller through place_block    *)
(* and tick.                                                               *)
(*   rules, debug  the rule table and the debug overlay flag of the run    *)
(*   ship          the Ship                                                *)
(*   ret           the last call: its arguments, its result, the ship      *)
(*                 before it and the operations it executed                *)
(*   edits         the number of place_block calls so far                  *)
(*   trip          the revert round trip being observed                    *)
(*   twin          a second ship given the same edits (SpecTwin)           *)
(***************************************************************************)
VARIABLES rules, debug, ship, ret, edits, trip, twin

vars == <<rules, debug, ship, ret, edits, trip, twin>>

\* block positions handed to place_block: two inside the chunk, one below
\* it and one past its far side
PlacePositions == {IVec3(0, 0, 0), IVec3(1, 0, 0), IVec3(-1, 0, 0), IVec3(0, 2, 0)}

Budgets == 0..MaxBudget

NoCall ==
    [call |-> "new", ok |-> TRUE, pos |-> ZERO, block |-> 0, budget |-> 0,
     more_work |-> FALSE, changed_chunks |-> <<>>, ops |-> <<>>, pre |-> NewShip]

NoTrip == [phase |-> 0, pos |-> ZERO, base |-> NewShip.node_id_bits]

Init ==
    /\ rules \in RuleTables
    /\ debug = FALSE
    /\ ship = NewShip
    /\ ret = NoCall
    /\ edits = 0
    /\ trip = NoTrip
    /\ twin = NewShip

\* the block stored at a block position inside the chunk
BlockAt(s, block_pos) == s.blocks[get_block_index(get_node_pos_from_block_pos(block_pos))]

InChunk(block_pos) == get_chunk_index(get_node_pos_from_block_pos(block_pos)).ok

\* the round trip observed: a block placed on an empty position of a drained
\* ship (phase 1), then removed again once the ship was drained (phase 2)
TripAfterPlace(s, block_pos, block_index) ==
    IF ~InChunk(block_pos) \/ BlockAt(s, block_pos) = block_index THEN trip
    ELSE IF /\ trip.phase = 1
            /\ Drained(s)
            /\ block_pos = trip.pos
            /\ block_index = BLOCK_INDEX_EMPTY
         THEN [trip EXCEPT !.phase = 2]
    ELSE IF Drained(s) /\ BlockAt(s, block_pos) = BLOCK_INDEX_EMPTY
         THEN [phase |-> 1, pos |-> block_pos, base |-> s.node_id_bits]
    ELSE NoTrip

PlaceBlock(block_pos, block_index) ==
    /\ edits < MaxEdits
    /\ LET res == place_block(ship, rules, block_pos, block_index)
       IN  /\ ship' = res.ship
           /\ ret' = [NoCall EXCEPT !.call = "place_block", !.ok = res.ok,
                                    !.pos = block_pos, !.block = block_index,
                                    !.pre = ship]
    /\ trip' = TripAfterPlace(ship, block_pos, block_index)
    /\ edits' = edits + 1
    /\ UNCHANGED <<rules, debug, twin>>

Tick(actions_per_tick) ==
    /\ LET res == tick(ship, rules, actions_per_tick, debug)
       IN  /\ ship' = res.ship
           /\ ret' = [NoCall EXCEPT !.call = "tick", !.budget = actions_per_tick,
                                    !.more_work = res.more_work,
                                    !.changed_chunks = res.changed_chunks,
                                    !.ops = res.ops, !.pre = ship]
    /\ UNCHANGED <<rules, debug, edits, trip, twin>>

Next ==
    \/ \E block_pos \in PlacePositions, block_index \in BlockIndices :
          PlaceBlock(block_pos, block_index)
    \/ \E actions_per_tick \in Budgets : Tick(actions_per_tick)

Spec == Init /\ [][Next]_vars

(***************************************************************************)
(* Properties of tick and place_block, read off the last call (ret).       *)
(***************************************************************************)
IsTick == ret.call = "tick"

IsPlace == ret.call = "place_block"

OpsOf(kind) == {k \in 1..Len(ret.ops) : ret.ops[k].op = kind}

\* the chunks of the ship: add_chunk ran once
ChunkIndices == {0}

\* C1: a tick on a ship whose three queues are empty, whatever its budget,
\* executes no operation (so no collapse write), leaves every chunk array and
\* every queue as it was, and returns an empty changed_chunks list.
C1_FixedPoint ==
    (IsTick /\ Drained(ret.pre)) =>
        /\ ret.ops = <<>>
        /\ ship = ret.pre
        /\ ret.changed_chunks = <<>>

\* a tick with a budget on a drained ship that holds resolved cells
C1_Witness ==
    /\ IsTick
    /\ Drained(ret.pre)
    /\ ret.budget >= 1
    /\ \E i \in DOMAIN ret.pre.node_id_bits : ret.pre.node_id_bits[i] # 0

\* C4: place_block with the block index the position already holds returns Ok
\* and leaves the block grid, the queues, was_reset and every chunk array
\* unchanged.
C4_PlaceSameBlockNoOp ==
    (IsPlace /\ InChunk(ret.pos) /\ BlockAt(ret.pre, ret.pos) = ret.block) =>
        /\ ret.ok
        /\ ship = ret.pre

\* the block already there is placed again while work is queued and
\* was_reset holds cells
C4_Witness ==
    /\ IsPlace
    /\ InChunk(ret.pos)
    /\ BlockAt(ret.pre, ret.pos) = ret.block
    /\ ret.block # BLOCK_INDEX_EMPTY
    /\ ret.pre.was_reset # <<>>
    /\ ~Drained(ret.pre)

\* C5: every operation a tick executes is a reset while to_reset holds work,
\* a propergate only with to_reset empty, a collapse only with to_reset and
\* to_propergate empty.
C5_StrictPriority ==
    IsTick =>
        \A k \in 1..Len(ret.ops) :
            LET e == ret.ops[k]
            IN  /\ (e.reset_len > 0) => e.op = "reset"
                /\ (e.op = "reset") => e.reset_len > 0
                /\ (e.op = "propergate") => (e.reset_len = 0 /\ e.prop_len > 0)
                /\ (e.op = "collapse") =>
                      (e.reset_len = 0 /\ e.prop_len = 0 /\ e.coll_len > 0)

\* one tick that went from propagating to collapsing while cells were
\* waiting in to_collapse all along
C5_Witness ==
    /\ IsTick
    /\ \E j, k \in 1..Len(ret.ops) :
          /\ j < k
          /\ ret.ops[j].op = "propergate"
          /\ ret.ops[j].coll_len > 0
          /\ ret.ops[k].op = "collapse"

\* C6: a tick with budget b executes at most b operations (each removes one
\* queue entry) and executes fewer than b only when it found all three
\* queues empty.
C6_BudgetBound ==
    IsTick =>
        /\ Len(ret.ops) <= ret.budget
        /\ (Len(ret.ops) < ret.budget) => Drained(ship)
        /\ (~Drained(ret.pre) /\ ret.budget > 0) => Len(ret.ops) > 0

\* a tick that did some work and stopped before its budget ran out
C6_Witness ==
    /\ IsTick
    /\ Len(ret.ops) > 0
    /\ Len(ret.ops) < ret.budget

\* C7 as stated: the boolean tick returns is true exactly when a queue still
\* holds work on return.
C7_MoreWorkIffQueued == IsTick => (ret.more_work <=> ~Drained(ship))

\* C7 amended: tick returns true exactly when every one of its b loop
\* iterations executed an operation, false when it found the queues empty
\* with budget left; so false means drained, and true may mean drained too.
C7_FullTick ==
    IsTick =>
        /\ ret.more_work <=> (Len(ret.ops) = ret.budget)
        /\ ~ret.more_work => Drained(ship)
        /\ ~Drained(ship) => ret.more_work

\* the last budgeted operation emptied the queues and tick returned true
C7_Witness ==
    /\ IsTick
    /\ Len(ret.ops) > 0
    /\ Drained(ship)
    /\ ret.more_work

\* C8: a chunk index is in the changed_chunks a tick returns exactly when
\* the tick executed a collapse on a cell of that chunk.
C8_ChangedChunks ==
    IsTick =>
        \A c \in ChunkIndices :
            (\E m \in 1..Len(ret.changed_chunks) : ret.changed_chunks[m] = c)
            <=> (\E k \in OpsOf("collapse") :
                    from_world_node_index(ret.ops[k].cell)[1] = c)

\* a tick that executed operations, none of them a collapse
C8_Witness ==
    /\ IsTick
    /\ OpsOf("propergate") # {}
    /\ OpsOf("collapse") = {}
    /\ ret.changed_chunks = <<>>

\* C9: from a drained ship, placing a non-empty block on an empty position,
\* draining, placing the empty block on the same position and draining again
\* gives every cell the node_id_bits it had before the placement.
C9_RevertRoundTrip ==
    (trip.phase = 2 /\ Drained(ship)) => ship.node_id_bits = trip.base

CellIndices == 0..(node_length - 1)

\* the block the grid holds at a node position; outside the chunk it reads empty
GridBlock(pos) ==
    IF has_chunk(get_chunk_pos(pos)) THEN ship.blocks[get_block_index(pos)]
    ELSE BLOCK_INDEX_EMPTY

\* one alternative of a block requirement holds on the current grid at pos:
\* an entry is tested where its position is block-aligned, one entry at least
\* is tested, and every tested entry finds its block
GridSatisfies(pos, req) ==
    /\ \E m \in 1..Len(req) : Aligned(VAdd(pos, req[m][1]))
    /\ \A m \in 1..Len(req) :
          Aligned(VAdd(pos, req[m][1])) => GridBlock(VAdd(pos, req[m][1])) = req[m][2]

\* the table entries with an alternative the grid satisfies at cell i
SatisfiedAt(i) ==
    {k \in 1..Len(rules.map_rules_index_to_node_id) :
        \E j \in 1..Len(rules.block_rules[k]) :
            GridSatisfies(pos_from_world_node_index(0, i), rules.block_rules[k][j].req)}

TwinBudgets == 2..MaxBudget

TwinPlaceBlock(block_pos, block_index) ==
    /\ edits < MaxEdits
    /\ ship = twin
    /\ ship' = place_block(ship, rules, block_pos, block_index).ship
    /\ twin' = place_block(twin, rules, block_pos, block_index).ship
    /\ ret' = [NoCall EXCEPT !.call = "place_block", !.pos = block_pos,
                             !.block = block_index]
    /\ edits' = edits + 1
    /\ UNCHANGED <<rules, debug, trip>>

TwinTick ==
    /\ ~Drained(ship)
    /\ ship' = tick(ship, rules, 1, debug).ship
    /\ ret' = [NoCall EXCEPT !.call = "tick", !.budget = 1]
    /\ UNCHANGED <<rules, debug, edits, trip, twin>>

TwinTickOther(actions_per_tick) ==
    /\ ~Drained(twin)
    /\ twin' = tick(twin, rules, actions_per_tick, debug).ship
    /\ ret' = [NoCall EXCEPT !.call = "tick_twin", !.budget = actions_per_tick]
    /\ UNCHANGED <<rules, debug, edits, trip, ship>>

NextTwin ==
    \/ \E block_pos \in PlacePositions, block_index \in BlockIndices :
          TwinPlaceBlock(block_pos, block_index)
    \/ TwinTick
    \/ \E actions_per_tick \in TwinBudgets : TwinTickOther(actions_per_tick)

SpecTwin == Init /\ [][NextTwin]_vars

\* C3: two ships with the same rule table that start in the same state and
\* receive the same place_block calls have, once both are fully drained by
\* tick, the same node_id_bits in every cell, whatever budgets drained them.
C3_DeterministicCollapse ==
    (Drained(ship) /\ Drained(twin)) =>
        /\ ship.node_id_bits = twin.node_id_bits
        /\ ship.blocks = twin.blocks

\* both ships drained, on their different schedules, after a second edit,
\* with resolved cells
C3_Witness ==
    /\ Drained(ship)
    /\ Drained(twin)
    /\ edits >= 2
    /\ ret.call \in {"tick", "tick_twin"}
    /\ \E i \in CellIndices : ship.node_id_bits[i] # NodeBits(none)

(***************************************************************************)
(* Draining.  The caller edits only a drained ship and then calls tick     *)
(* with a budget of one or more until the queues are empty; the frame loop *)
(* calls tick every frame, so a tick is always eventually taken.           *)
(***************************************************************************)
LiveTables == {TableA, TableB}

LiveBudgets == 1..MaxBudget

InitLive ==
    /\ rules \in LiveTables
    /\ debug = FALSE
    /\ ship = NewShip
    /\ ret = NoCall
    /\ edits = 0
    /\ trip = NoTrip
    /\ twin = NewShip

LivePlaceBlock(block_pos, block_index) ==
    /\ Drained(ship)
    /\ edits < LiveEdits
    /\ PlaceBlock(block_pos, block_index)

LiveTick == \E actions_per_tick \in LiveBudgets : Tick(actions_per_tick)

NextLive ==
    \/ \E block_pos \in PlacePositions, block_index \in BlockIndices :
          LivePlaceBlock(block_pos, block_index)
    \/ LiveTick

\* Weak fairness of LiveTick with its enabling condition written out: a tick
\* with a budget of one or more changes the ship whenever a queue holds work,
\* so WF_vars(LiveTick) implies that a ship that stays undrained is ticked
\* again and again.
LiveFair == []<>Drained(ship) \/ []<><<LiveTick>>_vars

SpecLive == InitLive /\ [][NextLive]_vars /\ LiveFair

NeighbourhoodEmpty(i) ==
    \A k \in 1..Len(rules.map_rules_index_to_node_id) :
        \A j \in 1..Len(rules.block_rules[k]) :
            \A m \in 1..Len(rules.block_rules[k][j].req) :
                LET test_pos == VAdd(pos_from_world_node_index(0, i),
                                     rules.block_rules[k][j].req[m][1])
                IN  Aligned(test_pos) => GridBlock(test_pos) = BLOCK_INDEX_EMPTY

\* some candidate has a block-requirement alternative that an all-empty
\* neighbourhood of cell i satisfies
AdmittedOnEmpty(i) ==
    \E k \in 1..Len(rules.map_rules_index_to_node_id) :
        \E j \in 1..Len(rules.block_rules[k]) :
            LET req     == rules.block_rules[k][j].req
                checked == {m \in 1..Len(req) :
                               Aligned(VAdd(pos_from_world_node_index(0, i), req[m][1]))}
            IN  /\ checked # {}
                /\ \A m \in checked : req[m][2] = BLOCK_INDEX_EMPTY

\* C11: on a drained ship a cell with no placed block at any position its
\* candidates' block requirements refer to, and no candidate admitted on an
\* all-empty neighbourhood, has the empty identity and render occupancy false.
C11_UnconstrainedCellEmpty ==
    Drained(ship) =>
        \A i \in CellIndices :
            (NeighbourhoodEmpty(i) /\ ~AdmittedOnEmpty(i)) =>
                /\ ship.node_id_bits[i] = NodeBits(none)
                /\ ~ship.render_nodes[node_index_to_node_index_plus_padding(i)]

\* a drained ship with a resolved, rendered cell and a cell that was reset
\* and collapsed in this epoch after its neighbourhood became empty
C11_Witness ==
    /\ Drained(ship)
    /\ \E i \in CellIndices :
          /\ ship.node_id_bits[i] # NodeBits(none)
          /\ ship.render_nodes[node_index_to_node_index_plus_padding(i)]
    /\ \E i \in CellIndices :
          /\ NeighbourhoodEmpty(i)
          /\ contains(ship.was_reset, i)
          /\ ship.nodes[i] = SomeList(<<>>)

\* the resets of the last tick whose stored list is still the cell's list on
\* return: no propergate of the same tick ran on the cell afterwards
ResetsStanding ==
    {k \in OpsOf("reset") :
        \A j \in (k + 1)..Len(ret.ops) :
            ret.ops[j].op = "propergate" => ret.ops[j].cell # ret.ops[k].cell}

\* C12: the admissible list a reset stores for a cell holds only identities
\* of the table that have a block-requirement alternative all of whose
\* checked offsets hold the required block in the grid at that time (a tick
\* does not change the grid).
C12_ResetRespectsBlocks ==
    IsTick =>
        \A k \in ResetsStanding :
            LET i == from_world_node_index(ret.ops[k].cell)[2]
            IN  /\ ship.nodes[i].some
                /\ \A t \in 1..Len(ship.nodes[i].list) :
                      \E c \in SatisfiedAt(i) :
                          rules.map_rules_index_to_node_id[c] = ship.nodes[i].list[t][1]

\* a reset stored a non-empty list for a cell at which some candidate of
\* the table has no satisfied block requirement
C12_Witness ==
    /\ IsTick
    /\ \E k \in ResetsStanding :
          LET i == from_world_node_index(ret.ops[k].cell)[2]
          IN  /\ ship.nodes[i].list # <<>>
              /\ \E c \in 1..Len(rules.map_rules_index_to_node_id) : c \notin SatisfiedAt(i)

\* the operations of the last tick that ran on cell i
OpsOn(kind, i) == {k \in OpsOf(kind) : from_world_node_index(ret.ops[k].cell)[2] = i}

\* what a collapse writes for a stored list: 0 for the empty list, else the
\* packed identity of the entry of highest priority, the last one on a tie
CollapsedBits(list) ==
    IF list = <<>> THEN 0
    ELSE LET top  == CHOOSE p \in {list[k][2] : k \in 1..Len(list)} :
                         \A k \in 1..Len(list) : list[k][2] <= p
             last == CHOOSE k \in 1..Len(list) :
                         /\ list[k][2] = top
                         /\ \A j \in 1..Len(list) : list[j][2] = top => j <= k
         IN  NodeBits(list[last][1])

\* C13 as stated: a cell's node_id_bits is the value its most recent
\* collapse wrote (0 if never collapsed), so no call changes the entry of a
\* cell except by collapsing it.
C13_BitsOnlyByCollapse ==
    /\ IsPlace => ship.node_id_bits = ret.pre.node_id_bits
    /\ IsTick =>
          \A i \in CellIndices :
              IF OpsOn("collapse", i) # {}
              THEN ship.node_id_bits[i] = CollapsedBits(ship.nodes[i].list)
              ELSE ship.node_id_bits[i] = ret.pre.node_id_bits[i]

\* C13 amended: a cell's node_id_bits is the value its most recent collapse
\* wrote, or 0 once a reset has run on the cell since (a reset that detects
\* a change clears the entry until the cell is collapsed again); reset and
\* propergate never write an identity, and place_block writes nothing.
C13_BitsCollapsedOrCleared ==
    /\ IsPlace => ship.node_id_bits = ret.pre.node_id_bits
    /\ IsTick =>
          \A i \in CellIndices :
              IF OpsOn("collapse", i) # {}
              THEN ship.node_id_bits[i] = CollapsedBits(ship.nodes[i].list)
              ELSE IF OpsOn("reset", i) # {}
              THEN ship.node_id_bits[i] \in {ret.pre.node_id_bits[i], NodeBits(none)}
              ELSE ship.node_id_bits[i] = ret.pre.node_id_bits[i]

\* a tick reset a resolved cell and returned before collapsing it: the
\* entry is cleared although the last collapse wrote an identity
C13_Witness ==
    /\ IsTick
    /\ \E i \in CellIndices :
          /\ OpsOn("reset", i) # {}
          /\ OpsOn("collapse", i) = {}
          /\ ret.pre.node_id_bits[i] # NodeBits(none)
          /\ ship.node_id_bits[i] = NodeBits(none)

\* the node position of a block position lies outside the one chunk, which
\* covers 0 .. node_size - 1 on every axis
OutsideChunks(block_pos) ==
    \E a \in 1..3 : (2 * block_pos[a]) \notin 0..(node_size - 1)

\* C14: place_block at a block position whose node position lies outside
\* every chunk returns an error and leaves the block grid, to_reset,
\* to_propergate, to_collapse and was_reset (the whole ship) unchanged.
C14_PlaceOutOfBounds ==
    (IsPlace /\ OutsideChunks(ret.pos)) =>
        /\ ~ret.ok
        /\ ship = ret.pre

\* a block is placed outside the chunk while work is queued and was_reset
\* holds cells
C14_Witness ==
    /\ IsPlace
    /\ OutsideChunks(ret.pos)
    /\ ret.block # BLOCK_INDEX_EMPTY
    /\ ret.pre.to_reset # <<>>
    /\ ret.pre.was_reset # <<>>

(***************************************************************************)
(* The block query of the fixed-size ships (space_ship_builder_v3 and _v2, *)
(* whose get_block_i are the same): a grid of block_size cells, flat in    *)
(* blocks.                                                                 *)
(***************************************************************************)
pos_in_bounds_below_size(pos, size) == \A a \in 1..3 : pos[a] < size[a]

\* pos.cmpge(IVec3::ZERO).all() && pos.cmplt(size.as_ivec3()).all()
pos_in_bounds(pos, size) ==
    /\ \A a \in 1..3 : pos[a] >= 0
    /\ \A a \in 1..3 : pos[a] < size[a]

\* indexing a Vec outside its length panics
Panic == [ok |-> FALSE, val |-> -1, panic |-> TRUE]

\* Ship::get_block_i
get_block_i(blocks, block_size, pos) ==
    IF ~pos_in_bounds(pos, block_size) THEN Err
    ELSE LET index == to_1d_i(pos, block_size)
         IN  IF index \in DOMAIN blocks THEN Ok(blocks[index]) ELSE Panic

\* Ship::get_block: pos.as_ivec3() of an unsigned position
get_block(blocks, block_size, pos) == get_block_i(blocks, block_size, pos)

(***************************************************************************)
(* The index and position functions applied to inputs of bounded size.     *)
(* ret holds the function called, its arguments and its result.            *)
(***************************************************************************)
Extents == {IVec3(x, y, z) : x \in 1..MaxExtent, y \in 1..MaxExtent, z \in 1..MaxExtent}

\* positions around a grid of the largest extent, one step past each side
QueryPositions ==
    {IVec3(x, y, z) : x \in (-1)..MaxExtent, y \in (-1)..MaxExtent, z \in (-1)..MaxExtent}

\* block grids of a ship of the given size: every cell a different block,
\* or every second cell empty
Grids(block_size) ==
    {[i \in 0..(element_product(block_size) - 1) |-> i + 1],
     [i \in 0..(element_product(block_size) - 1) |->
         IF i % 2 = 0 THEN BLOCK_INDEX_EMPTY ELSE i]}

\* the arguments of one call, drawn before the call is made
GetBlockIArgs ==
    UNION {{[call |-> "args", fn |-> "get_block_i", block_size |-> block_size,
             blocks |-> blocks, pos |-> pos] :
                blocks \in Grids(block_size), pos \in QueryPositions} :
           block_size \in Extents}

GetBlockI ==
    /\ ret.call = "args"
    /\ ret.fn = "get_block_i"
    /\ ret' = [call |-> "get_block_i", block_size |-> ret.block_size,
               blocks |-> ret.blocks, pos |-> ret.pos,
               out |-> get_block_i(ret.blocks, ret.block_size, ret.pos)]
    /\ UNCHANGED <<rules, debug, ship, edits, trip, twin>>

\* C15: get_block_i on a position with a negative coordinate or one at or
\* past the block size returns an error, never a block index; on every other
\* position it returns the block stored at x + y * width + z * width * height.
C15_GetBlockBounds ==
    (ret.call = "get_block_i") =>
        IF \E a \in 1..3 : ret.pos[a] < 0 \/ ret.pos[a] >= ret.block_size[a]
        THEN ~ret.out.ok
        ELSE /\ ret.out.ok
             /\ ret.out.val =
                    ret.blocks[ret.pos[1] + ret.pos[2] * ret.block_size[1]
                               + ret.pos[3] * ret.block_size[1] * ret.block_size[2]]

\* a query one step below a grid whose flat index for that position exists
\* and holds the empty block
C15_Witness ==
    /\ ret.call = "get_block_i"
    /\ ret.pos = IVec3(-1, 1, 0)
    /\ ret.block_size[1] >= 2
    /\ ret.block_size[2] >= 2
    /\ ret.blocks[ret.block_size[1] - 1] = BLOCK_INDEX_EMPTY
    /\ ~ret.out.ok

ChunkIndexValues == 0..MaxChunk

WorldNodeIndexArgs ==
    {[call |-> "args", fn |-> "to_world_node_index", chunk_index |-> c, node_index |-> n] :
        c \in ChunkIndexValues, n \in CellIndices}

WorldNodeIndex ==
    /\ ret.call = "args"
    /\ ret.fn = "to_world_node_index"
    /\ ret' = [call |-> "to_world_node_index", chunk_index |-> ret.chunk_index,
               node_index |-> ret.node_index,
               out |-> to_world_node_index(ret.chunk_index, ret.node_index),
               back |-> from_world_node_index(
                            to_world_node_index(ret.chunk_index, ret.node_index))]
    /\ UNCHANGED <<rules, debug, ship, edits, trip, twin>>

FlatIndexArgs ==
    {[call |-> "args", fn |-> "to_1d", max |-> e[1], pos |-> e[2]] :
        e \in {x \in Extents \X QueryPositions : pos_in_bounds(x[2], x[1])}}

FlatIndex ==
    /\ ret.call = "args"
    /\ ret.fn = "to_1d"
    /\ ret' = [call |-> "to_1d", max |-> ret.max, pos |-> ret.pos,
               out |-> to_1d(ret.pos, ret.max),
               back |-> to_3d(to_1d(ret.pos, ret.max), ret.max),
               out_i |-> to_1d_i(ret.pos, ret.max),
               back_i |-> to_3d_i(to_1d_i(ret.pos, ret.max), ret.max)]
    /\ UNCHANGED <<rules, debug, ship, edits, trip, twin>>

Coords == (-MaxCoord)..MaxCoord

GetChunkPosArgs ==
    {[call |-> "args", fn |-> "get_chunk_pos", pos |-> IVec3(x, y, z)] :
        x \in Coords, y \in Coords, z \in {-1, 0}}

GetChunkPos ==
    /\ ret.call = "args"
    /\ ret.fn = "get_chunk_pos"
    /\ ret' = [call |-> "get_chunk_pos", pos |-> ret.pos, out |-> get_chunk_pos(ret.pos)]
    /\ UNCHANGED <<rules, debug, ship, edits, trip, twin>>

InitMath ==
    /\ rules \in RuleTables
    /\ debug = FALSE
    /\ ship = NewShip
    /\ ret \in GetBlockIArgs \cup WorldNodeIndexArgs \cup FlatIndexArgs \cup GetChunkPosArgs
    /\ edits = 0
    /\ trip = NoTrip
    /\ twin = NewShip

NextMath == GetBlockI \/ WorldNodeIndex \/ FlatIndex \/ GetChunkPos

SpecMath == InitMath /\ [][NextMath]_vars

\* C16: for every chunk index c and node index n below the nodes per chunk,
\* from_world_node_index(to_world_node_index(c, n)) = (c, n), and no other
\* pair has the same world node index.
C16_WorldIndexRoundTrip ==
    (ret.call = "to_world_node_index") =>
        /\ ret.back = <<ret.chunk_index, ret.node_index>>
        /\ \A c \in ChunkIndexValues, n \in CellIndices :
              to_world_node_index(c, n) = ret.out =>
                  (c = ret.chunk_index /\ n = ret.node_index)

\* the last node of a chunk other than the first
C16_Witness ==
    /\ ret.call = "to_world_node_index"
    /\ ret.chunk_index = MaxChunk
    /\ ret.node_index = node_length - 1
    /\ ret.out > node_length

\* C17: for every extent with positive components and every position below
\* it on each axis, to_1d is x + y * width + z * width * height, lies in
\* 0 .. width * height * depth - 1, and to_3d gives the position back; the
\* same for to_1d_i and to_3d_i.
C17_FlatIndexRoundTrip ==
    (ret.call = "to_1d") =>
        /\ ret.out = ret.pos[1] + ret.pos[2] * ret.max[1]
                        + ret.pos[3] * ret.max[1] * ret.max[2]
        /\ ret.out \in 0..(ret.max[1] * ret.max[2] * ret.max[3] - 1)
        /\ ret.back = ret.pos
        /\ ret.out_i = ret.out
        /\ ret.back_i = ret.pos

\* the far corner of a grid whose three extents differ
C17_Witness ==
    /\ ret.call = "to_1d"
    /\ ret.max = IVec3(2, 3, 1)
    /\ ret.pos = IVec3(1, 2, 0)
    /\ ret.out = 5

\* C18: get_chunk_pos returns on each axis floor(coordinate / chunk size) *
\* chunk size, the origin of the chunk that holds the position, also for
\* negative coordinates.
C18_ChunkPosFloor ==
    (ret.call = "get_chunk_pos") =>
        \A a \in 1..3 : ret.out[a] = (ret.pos[a] \div node_size) * node_size

(***************************************************************************)
(* SpecEdit: the ship of Spec under a rule table that keeps one            *)
(* affected-by list per block index, the empty block's included.           *)
(***************************************************************************)
EditTables == {TableC, TableD}

InitEdit ==
    /\ rules \in EditTables
    /\ debug = FALSE
    /\ ship = NewShip
    /\ ret = NoCall
    /\ edits = 0
    /\ trip = NoTrip
    /\ twin = NewShip

SpecEdit == InitEdit /\ [][Next]_vars

\* the node cell pos lies in the known chunk
CellInChunk(pos) == \A a \in 1..3 : pos[a] \in 0..(node_size - 1)

\* every in-chunk cell 2p + o, o in the affected-by list of block_index, is
\* queued in to_reset
AffectedQueued(block_index) ==
    \A m \in 1..Len(rules.affected_by_block[block_index]) :
        LET cell == VAdd(get_node_pos_from_block_pos(ret.pos),
                         rules.affected_by_block[block_index][m])
        IN  CellInChunk(cell) =>
                contains(ship.to_reset, to_1d_i(cell, nodes_per_chunk))

\* C19: after a place_block that changes the block at block position p from
\* index old to index new, to_reset contains every in-chunk node cell 2p + o
\* for every offset o of the affected-by list of old and of that of new.
C19_EditEnqueuesBoth ==
    (IsPlace /\ ret.ok /\ BlockAt(ret.pre, ret.pos) # ret.block) =>
        /\ AffectedQueued(BlockAt(ret.pre, ret.pos))
        /\ AffectedQueued(ret.block)

\* what place_block does queue: the list of each of old and new that is not
\* the empty block
C19_NonEmptyQueued ==
    (IsPlace /\ ret.ok /\ BlockAt(ret.pre, ret.pos) # ret.block) =>
        \A b \in {BlockAt(ret.pre, ret.pos), ret.block} \ {BLOCK_INDEX_EMPTY} :
            AffectedQueued(b)

\* a block placed on an empty position next to a placed block
C19_Reached ==
    /\ IsPlace /\ ret.ok
    /\ BlockAt(ret.pre, ret.pos) = BLOCK_INDEX_EMPTY
    /\ ret.block # BLOCK_INDEX_EMPTY
    /\ ret.pos = IVec3(1, 0, 0)
    /\ ret.pre.blocks[0] # BLOCK_INDEX_EMPTY

\* the length of to_collapse after the k-th operation of the last tick
CollapseLenAfter(k) ==
    IF k < Len(ret.ops) THEN ret.ops[k + 1].coll_len ELSE Len(ship.to_collapse)

\* C20: a place_block call modifies nothing but the block grid, to_reset and
\* was_reset: to_propergate, to_collapse, every stored admissible list,
\* node_id_bits and render_nodes are as before the call.  to_collapse grows
\* only in a reset or a propergate, by the cell that operation worked on,
\* and only when the operation changed the stored list of that cell.
C20_EditsPushOnlyReset ==
    /\ IsPlace =>
          /\ ship.to_propergate = ret.pre.to_propergate
          /\ ship.to_collapse = ret.pre.to_collapse
          /\ ship.nodes = ret.pre.nodes
          /\ ship.node_id_bits = ret.pre.node_id_bits
          /\ ship.render_nodes = ret.pre.render_nodes
    /\ IsTick =>
          \A k \in 1..Len(ret.ops) :
              CollapseLenAfter(k) > ret.ops[k].coll_len =>
                  ret.ops[k].op \in {"reset", "propergate"}
    /\ (IsTick /\ Len(ret.ops) = 1 /\ CollapseLenAfter(1) > ret.ops[1].coll_len) =>
          /\ ship.to_collapse = Append(ret.pre.to_collapse, ret.ops[1].cell)
          /\ take_or_empty(ship.nodes[ret.ops[1].cell]) #
                 take_or_empty(ret.pre.nodes[ret.ops[1].cell])

\* a block changed by place_block while to_propergate and to_collapse held
\* work and a cell had a stored list and a resolved identity
C20_Witness ==
    /\ IsPlace /\ ret.ok
    /\ BlockAt(ret.pre, ret.pos) # ret.block
    /\ ret.pre.to_propergate # <<>>
    /\ ret.pre.to_collapse # <<>>
    /\ ship.to_reset # ret.pre.to_reset
    /\ \E i \in CellIndices : ship.node_id_bits[i] # NodeBits(none)

(***************************************************************************)
(* Ship::on_rules_changed, called when the rule library is reloaded, and   *)
(* SpecReload: the ship of Spec with that call added.                      *)
(***************************************************************************)
\* push_back of each of cells, in order, onto the queue q: the cells that q
\* does not hold are appended (cells holds no cell twice)
push_new(q, cells) == q \o SelectSeq(cells, LAMBDA w : ~contains(q, w))

on_rules_changed_from_one(s) ==
    [s EXCEPT !.to_propergate =
        push_new(@, [k \in 1..(node_length - 1) |-> to_world_node_index(0, k)])]

\* Ship::on_rules_changed: chunk 0 is the only chunk
on_rules_changed(s) ==
    [s EXCEPT !.to_propergate =
        push_new(@, [k \in 1..node_length |-> to_world_node_index(0, k - 1)])]

\* the rule library a hot reload brings in
ReloadTables == {TableB}

\* edits are made before the reload
ReloadPlaceBlock(block_pos, block_index) ==
    /\ rules \notin ReloadTables
    /\ edits < ReloadEdits
    /\ PlaceBlock(block_pos, block_index)

\* the hot reload: the rule library is replaced and on_rules_changed is
\* called, on a drained ship or in the middle of a drain
OnRulesChanged ==
    /\ rules \notin ReloadTables
    /\ rules' \in ReloadTables
    /\ ship' = on_rules_changed(ship)
    /\ ret' = [NoCall EXCEPT !.call = "on_rules_changed", !.pre = ship]
    /\ UNCHANGED <<debug, edits, trip, twin>>

NextReload ==
    \/ \E block_pos \in PlacePositions, block_index \in BlockIndices :
          ReloadPlaceBlock(block_pos, block_index)
    \/ \E actions_per_tick \in Budgets : Tick(actions_per_tick)
    \/ OnRulesChanged

SpecReload == Init /\ [][NextReload]_vars

\* C21: after on_rules_changed returns, every node cell of every chunk is a
\* member of to_propergate, and the block grid, the stored admissible lists,
\* to_reset, to_collapse, was_reset, node_id_bits and render_nodes are as
\* before the call.
C21_RulesChangedRequeues ==
    (ret.call = "on_rules_changed") =>
        /\ \A i \in CellIndices : contains(ship.to_propergate, to_world_node_index(0, i))
        /\ ship.blocks = ret.pre.blocks
        /\ ship.nodes = ret.pre.nodes
        /\ ship.to_reset = ret.pre.to_reset
        /\ ship.to_collapse = ret.pre.to_collapse
        /\ ship.was_reset = ret.pre.was_reset
        /\ ship.node_id_bits = ret.pre.node_id_bits
        /\ ship.render_nodes = ret.pre.render_nodes

\* a reload in the middle of a drain: every queue held work, cell 0 was not
\* queued to propagate, and a cell had a stored list with a candidate
C21_Witness ==
    /\ ret.call = "on_rules_changed"
    /\ ret.pre.to_reset # <<>>
    /\ ret.pre.to_propergate # <<>>
    /\ ret.pre.to_collapse # <<>>
    /\ ~contains(ret.pre.to_propergate, 0)
    /\ \E i \in CellIndices : ret.pre.nodes[i].some /\ ret.pre.nodes[i].list # <<>>

\* the queues tick works from
WorkQueues == {ship.to_reset, ship.to_propergate, ship.to_collapse}

\* C22: pushing a cell id that a queue already holds leaves the queue's
\* content and order unchanged; in every reachable state none of to_reset,
\* to_propergate, to_collapse holds a cell id twice, and none is longer than
\* the number of node cells.
C22_QueuesDeduplicated ==
    \A q \in WorkQueues :
        /\ \A k \in 1..Len(q) : push_back(q, q[k]) = q
        /\ \A j, k \in 1..Len(q) : (j # k) => (q[j] # q[k])
        /\ Len(q) <= node_length

\* an edit all of whose affected cells were already queued to reset
C22_Witness ==
    /\ IsPlace /\ ret.ok
    /\ BlockAt(ret.pre, ret.pos) # ret.block
    /\ ret.pre.to_reset # <<>>
    /\ ship.to_reset = ret.pre.to_reset

\* the resets and propergates of the last tick whose stored list is the
\* cell's list on return
LastWrites ==
    {k \in OpsOf("reset") \cup OpsOf("propergate") :
        \A j \in (k + 1)..Len(ret.ops) :
            ret.ops[j].op \in {"reset", "propergate"} => ret.ops[j].cell # ret.ops[k].cell}

\* the table entries with a block requirement that, at cell i, is tested at
\* a position outside the chunk
OutsideTested(i) ==
    {c \in 1..Len(rules.map_rules_index_to_node_id) :
        \E j \in 1..Len(rules.block_rules[c]) :
            \E m \in 1..Len(rules.block_rules[c][j].req) :
                LET test_pos == VAdd(pos_from_world_node_index(0, i),
                                     rules.block_rules[c][j].req[m][1])
                IN  Aligned(test_pos) /\ ~CellInChunk(test_pos)}

\* the identity of table entry c is in the list stored for cell i
Listed(i, c) ==
    \E t \in 1..Len(ship.nodes[i].list) :
        ship.nodes[i].list[t][1] = rules.map_rules_index_to_node_id[c]

\* C23: when reset or propergate evaluates a block requirement at a position
\* outside every known chunk, the block there counts as the empty block: the
\* operation completes and stores a list, a candidate it lists has an
\* alternative that is satisfied with the outside positions read as empty,
\* and a candidate without node requirements that has such an alternative
\* is listed.
C23_OutsideCountsAsEmpty ==
    IsTick =>
        \A k \in LastWrites :
            LET i == from_world_node_index(ret.ops[k].cell)[2]
            IN  /\ ship.nodes[i].some
                /\ \A c \in OutsideTested(i) :
                      /\ Listed(i, c) => c \in SatisfiedAt(i)
                      /\ (c \in SatisfiedAt(i) /\ rules.node_rules[c] = <<>>) =>
                            Listed(i, c)

\* a tick recomputed two cells at the far side of the chunk: one admitted a
\* candidate that asks for the empty block outside, the other rejected a
\* candidate that asks for block 1 outside and has block 1 inside
C23_Witness ==
    /\ IsTick
    /\ \E k \in LastWrites :
          LET i == from_world_node_index(ret.ops[k].cell)[2]
          IN  \E c \in OutsideTested(i) : Listed(i, c)
    /\ \E k \in LastWrites :
          LET i == from_world_node_index(ret.ops[k].cell)[2]
          IN  \E c \in OutsideTested(i) :
                /\ ~Listed(i, c)
                /\ \E j \in 1..Len(rules.block_rules[c]) :
                      \E m \in 1..Len(rules.block_rules[c][j].req) :
                          LET test_pos == VAdd(pos_from_world_node_index(0, i),
                                               rules.block_rules[c][j].req[m][1])
                          IN  /\ CellInChunk(test_pos)
                              /\ Aligned(test_pos)
                              /\ GridBlock(test_pos) = rules.block_rules[c][j].req[m][2]
                              /\ rules.block_rules[c][j].req[m][2] # BLOCK_INDEX_EMPTY

\* the last tick ran one operation, of the given kind
OneOp(kind) == IsTick /\ Len(ret.ops) = 1 /\ ret.ops[1].op = kind

\* the cell the one operation of the last tick worked on
OpCell == from_world_node_index(ret.ops[1].cell)[2]

\* that operation found the recomputed list different from the previous one
\* (a list not yet computed counting as empty)
OpChanged == take_or_empty(ship.nodes[OpCell]) # take_or_empty(ret.pre.nodes[OpCell])

\* the in-chunk cells at an affected-by offset of an identity of the old or
\* the new list of the cell
OpNeighbours ==
    {to_1d_i(VAdd(pos_from_world_node_index(0, OpCell), o), nodes_per_chunk) :
        o \in {o \in UNION {{rules.affected_by_node[e[1]][m] :
                                m \in 1..Len(rules.affected_by_node[e[1]])} :
                            e \in {ret.pre.nodes[OpCell].list[t] :
                                       t \in 1..Len(ret.pre.nodes[OpCell].list)}
                                  \cup {ship.nodes[OpCell].list[t] :
                                       t \in 1..Len(ship.nodes[OpCell].list)}} :
                CellInChunk(VAdd(pos_from_world_node_index(0, OpCell), o))}}

\* C24: when a reset finds the recomputed list different from the previous
\* one, every in-chunk neighbour cell is pushed into to_reset if was_reset
\* does not record it at that moment, and into to_propergate otherwise.
C24_ResetNeighbourRouting ==
    (OneOp("reset") /\ OpChanged) =>
        \A n \in OpNeighbours :
            IF contains(ret.pre.was_reset, n)
            THEN /\ contains(ship.to_propergate, n)
                 /\ contains(ship.to_reset, n) => contains(Tail(ret.pre.to_reset), n)
            ELSE /\ contains(ship.to_reset, n)
                 /\ contains(ship.to_propergate, n) =>
                        (contains(ret.pre.to_propergate, n) \/ n = OpCell)

\* a changed reset with a neighbour that was already reset in the epoch: it
\* is not queued to reset again and is queued to propergate
C24_Witness ==
    /\ OneOp("reset") /\ OpChanged
    /\ \E n \in OpNeighbours :
          /\ contains(ret.pre.was_reset, n)
          /\ ~contains(ship.to_reset, n)
          /\ contains(ship.to_propergate, n)

\* C25: a reset that finds the recomputed list different from the previous
\* one sets the cell's node_id_bits entry to the empty value, records the
\* cell in was_reset, and leaves the cell a member of to_propergate and of
\* to_collapse.
C25_ResetOnChange ==
    (OneOp("reset") /\ OpChanged) =>
        /\ ship.node_id_bits[OpCell] = NodeBits(none)
        /\ contains(ship.was_reset, ret.ops[1].cell)
        /\ contains(ship.to_propergate, ret.ops[1].cell)
        /\ contains(ship.to_collapse, ret.ops[1].cell)

\* a changed reset of a resolved cell that was in none of was_reset,
\* to_propergate and to_collapse
C25_Witness ==
    /\ OneOp("reset") /\ OpChanged
    /\ ret.pre.node_id_bits[OpCell] # NodeBits(none)
    /\ ~contains(ret.pre.was_reset, ret.ops[1].cell)
    /\ ~contains(ret.pre.to_propergate, ret.ops[1].cell)
    /\ ~contains(ret.pre.to_collapse, ret.ops[1].cell)

\* the state the one operation of the last tick found, less the queue entry
\* it popped
OpBase == [ret.pre EXCEPT !.to_reset = IF ret.ops[1].op = "reset" THEN Tail(@) ELSE @,
                         !.to_propergate = IF ret.ops[1].op = "propergate" THEN Tail(@) ELSE @,
                         !.to_collapse = IF ret.ops[1].op = "collapse" THEN Tail(@) ELSE @]

\* C26: a reset whose recomputed list equals the previous list (a cell not
\* yet computed counting as the empty list) pushes nothing into any queue,
\* does not record the cell in was_reset and alters neither node_id_bits nor
\* render_nodes; changed or not, the list stored for the cell after the
\* reset is the recomputed list, never None.
C26_ResetWithoutChange ==
    OneOp("reset") =>
        /\ ship.nodes[OpCell].some
        /\ ship.nodes[OpCell].list =
              propergate_node_world_index(OpBase, rules, ret.ops[1].cell, TRUE)
        /\ ~OpChanged =>
              /\ ship.to_reset = OpBase.to_reset
              /\ ship.to_propergate = OpBase.to_propergate
              /\ ship.to_collapse = OpBase.to_collapse
              /\ ship.was_reset = OpBase.was_reset
              /\ ship.node_id_bits = OpBase.node_id_bits
              /\ ship.render_nodes = OpBase.render_nodes

\* a reset of a cell not yet computed that recomputes the empty list, with
\* work in every queue
C26_Witness ==
    /\ OneOp("reset") /\ ~OpChanged
    /\ ~ret.pre.nodes[OpCell].some
    /\ ship.nodes[OpCell] = SomeList(<<>>)
    /\ ship.to_propergate # <<>>
    /\ ship.to_collapse # <<>>

\* the node requirements of table entry c whose neighbour cell, seen from
\* the cell the operation worked on, lies in the chunk and had no list yet
\* (None) when the operation ran
UnknownNeighbourReqs(c) ==
    {j \in 1..Len(rules.node_rules[c]) :
        LET test_pos == VAdd(pos_from_world_node_index(0, OpCell), rules.node_rules[c][j][1])
        IN  /\ CellInChunk(test_pos)
            /\ ~ret.pre.nodes[to_1d_i(test_pos, nodes_per_chunk)].some}

\* C27: while propergate recomputes a cell, a node requirement whose
\* neighbour cell has no list yet (None) is satisfied only if was_reset
\* records that neighbour; for a neighbour that is still fully unknown the
\* requirement fails and the candidate is not admitted.
C27_StrictUnknownNeighbour ==
    OneOp("propergate") =>
        \A c \in 1..Len(rules.map_rules_index_to_node_id) :
            (\E j \in UnknownNeighbourReqs(c) :
                ~contains(ret.pre.was_reset,
                          to_1d_i(VAdd(pos_from_world_node_index(0, OpCell),
                                       rules.node_rules[c][j][1]), nodes_per_chunk)))
                => ~Listed(OpCell, c)

\* a is b with some entries left out: the same entries, in the same order
\* (b holds no entry twice)
SubList(a, b) == a = SelectSeq(b, LAMBDA e : \E t \in 1..Len(a) : a[t] = e)

\* C28: in every reachable state and for every cell, the list propergate
\* computes (strict node requirements) is a sub-list, in the same order and
\* with the same priorities, of the list reset computes (permissive node
\* requirements) for that cell on the same block grid.
C28_PropagateWithinReset ==
    \A i \in CellIndices :
        SubList(propergate_node_world_index(ship, rules, to_world_node_index(0, i), FALSE),
                propergate_node_world_index(ship, rules, to_world_node_index(0, i), TRUE))

\* a cell at which the strict list is not empty and shorter than the
\* permissive one
C28_Witness ==
    \E i \in CellIndices :
        LET strict == propergate_node_world_index(ship, rules, to_world_node_index(0, i), FALSE)
            loose  == propergate_node_world_index(ship, rules, to_world_node_index(0, i), TRUE)
        IN  strict # <<>> /\ Len(strict) < Len(loose)

\* C29: a propergate that finds the recomputed list different from the
\* previous one pushes every in-chunk affected-by neighbour (for the
\* identities of the old and the new list) into to_propergate and the cell
\* itself into to_collapse; a propergate that finds no change pushes
\* nothing; and no propergate adds to to_reset or was_reset or writes
\* node_id_bits or render_nodes.
C29_PropagateOnChange ==
    OneOp("propergate") =>
        /\ ship.to_reset = OpBase.to_reset
        /\ ship.was_reset = OpBase.was_reset
        /\ ship.node_id_bits = OpBase.node_id_bits
        /\ ship.render_nodes = OpBase.render_nodes
        /\ OpChanged =>
              /\ \A n \in OpNeighbours : contains(ship.to_propergate, n)
              /\ contains(ship.to_collapse, ret.ops[1].cell)
        /\ ~OpChanged =>
              /\ ship.to_propergate = OpBase.to_propergate
              /\ ship.to_collapse = OpBase.to_collapse

\* a changed propergate that queued a neighbour to_propergate did not hold
C29_Witness ==
    /\ OneOp("propergate") /\ OpChanged
    /\ \E n \in OpNeighbours : ~contains(OpBase.to_propergate, n)
    /\ ship.to_propergate # OpBase.to_propergate

\* C30: collapse writes to the cell's node_id_bits the packed identity of an
\* entry of the stored list whose priority is maximal, the last such entry
\* of the list on a tie, and the empty identity when the stored list is
\* empty or not yet computed; it sets the cell's render-occupancy flag to
\* true exactly when the chosen identity is not empty.
C30_CollapseResult ==
    OneOp("collapse") =>
        LET list == take_or_empty(ret.pre.nodes[OpCell])
        IN  /\ ship.node_id_bits[OpCell] = CollapsedBits(list)
            /\ (list = <<>>) => ship.node_id_bits[OpCell] = NodeBits(none)
            /\ ship.render_nodes[node_index_to_node_index_plus_padding(OpCell)]
                  <=> (list # <<>>)

\* a collapse of a list whose first two entries tie for the highest priority
C30_Witness ==
    /\ OneOp("collapse")
    /\ Len(ret.pre.nodes[OpCell].list) >= 2
    /\ ret.pre.nodes[OpCell].list[1][2] = ret.pre.nodes[OpCell].list[2][2]
    /\ ship.node_id_bits[OpCell] = NodeBits(ret.pre.nodes[OpCell].list[2][1])
    /\ ship.render_nodes[node_index_to_node_index_plus_padding(OpCell)]

\* C31 as stated: when a collapse selects a node identity that differs from
\* the cell's previously resolved identity, every in-chunk neighbour cell in
\* that identity's affected-by set is pushed into to_collapse.
C31_CollapseCascade ==
    (OneOp("collapse") /\ ship.node_id_bits[OpCell] # ret.pre.node_id_bits[OpCell]) =>
        \A t \in 1..Len(ship.nodes[OpCell].list) :
            LET node_id == ship.nodes[OpCell].list[t][1]
            IN  NodeBits(node_id) = ship.node_id_bits[OpCell] =>
                    \A m \in 1..Len(rules.affected_by_node[node_id]) :
                        LET n == VAdd(pos_from_world_node_index(0, OpCell),
                                      rules.affected_by_node[node_id][m])
                        IN  CellInChunk(n) =>
                                contains(ship.to_collapse, to_1d_i(n, nodes_per_chunk))

\* C31: a collapse pushes nothing into any queue, whether or not the
\* identity it selects differs from the cell's previously resolved identity:
\* it removes its own cell from the front of to_collapse and leaves to_reset,
\* to_propergate, was_reset and every other cell's list and outputs as they
\* were.
C31_CollapsePushesNothing ==
    OneOp("collapse") =>
        /\ ship.to_collapse = Tail(ret.pre.to_collapse)
        /\ ship.to_reset = ret.pre.to_reset
        /\ ship.to_propergate = ret.pre.to_propergate
        /\ ship.was_reset = ret.pre.was_reset
        /\ \A c \in DOMAIN ship.nodes : c # OpCell =>
                /\ ship.nodes[c] = ret.pre.nodes[c]
                /\ ship.node_id_bits[c] = ret.pre.node_id_bits[c]

\* a collapse that changed its cell's resolved identity to one with an
\* in-chunk affected-by neighbour that is not queued to collapse afterwards
C31_Witness ==
    /\ OneOp("collapse")
    /\ ship.node_id_bits[OpCell] # ret.pre.node_id_bits[OpCell]
    /\ \E t \in 1..Len(ship.nodes[OpCell].list) :
            LET node_id == ship.nodes[OpCell].list[t][1]
            IN  /\ NodeBits(node_id) = ship.node_id_bits[OpCell]
                /\ \E m \in 1..Len(rules.affected_by_node[node_id]) :
                        LET n == VAdd(pos_from_world_node_index(0, OpCell),
                                      rules.affected_by_node[node_id][m])
                        IN  /\ CellInChunk(n)
                            /\ ~contains(ship.to_collapse, to_1d_i(n, nodes_per_chunk))

\* C32: a place_block call that changes a block leaves was_reset empty; a
\* place_block call that changes nothing (same block, or a position outside
\* every chunk) leaves was_reset as it was; a tick only appends to was_reset,
\* and every entry it appends is the cell of a reset it executed.
C32_WasResetEpoch ==
    /\ (IsPlace /\ ship.blocks # ret.pre.blocks) => ship.was_reset = <<>>
    /\ (IsPlace /\ ship.blocks = ret.pre.blocks) => ship.was_reset = ret.pre.was_reset
    /\ IsTick =>
            /\ Len(ship.was_reset) >= Len(ret.pre.was_reset)
            /\ SubSeq(ship.was_reset, 1, Len(ret.pre.was_reset)) = ret.pre.was_reset
            /\ \A k \in (Len(ret.pre.was_reset) + 1)..Len(ship.was_reset) :
                    \E j \in OpsOf("reset") : ret.ops[j].cell = ship.was_reset[k]

\* a block-changing place_block on a ship whose was_reset held entries
C32_Witness ==
    /\ IsPlace
    /\ ship.blocks # ret.pre.blocks
    /\ ret.pre.was_reset # <<>>
    /\ ship.was_reset = <<>>

\* C33: within one edit epoch no cell recorded in was_reset is queued in
\* to_reset, so no reset runs on a recorded cell: every reset a tick runs
\* finds its cell unrecorded in was_reset as it stands before that reset,
\* and the resets of a tick leave the list of every cell recorded before
\* the call untouched (only a propagate or a collapse of the cell itself
\* writes it).  Hence a cell undergoes at most one change-detecting reset
\* per epoch.
C33_NoResetPingPong ==
    /\ \A k \in 1..Len(ship.was_reset) : ~contains(ship.to_reset, ship.was_reset[k])
    /\ IsTick =>
            /\ \A j \in OpsOf("reset") :
                    ~contains(tick(ret.pre, rules, j - 1, debug).ship.was_reset,
                              ret.ops[j].cell)
            /\ \A k \in 1..Len(ret.pre.was_reset) :
                    LET c == from_world_node_index(ret.pre.was_reset[k])[2]
                    IN  ship.nodes[c] # ret.pre.nodes[c] =>
                            \E j \in OpsOf("propergate") \cup OpsOf("collapse") :
                                ret.ops[j].cell = ret.pre.was_reset[k]

\* a change-detecting reset next to a cell recorded in was_reset: the
\* recorded cell is affected by the reset cell's identities and is not
\* queued in to_reset afterwards
C33_Witness ==
    /\ OneOp("reset")
    /\ OpChanged
    /\ contains(ship.was_reset, ret.ops[1].cell)
    /\ \E n \in OpNeighbours :
            /\ n # OpCell
            /\ contains(ret.pre.was_reset, n)
            /\ ~contains(ship.to_reset, n)

(***************************************************************************)
(* Re-solving: every edit is made on a drained ship and is followed by a   *)
(* full drain; on_rules_changed is then called on a drained ship with the  *)
(* rule table unchanged, and the ship is drained again.  twin keeps the    *)
(* drained ship as it was when on_rules_changed was called.                *)
(***************************************************************************)
ResolveEdits == 3

ResolvePlaceBlock(block_pos, block_index) ==
    /\ Drained(ship)
    /\ twin = NewShip
    /\ edits < ResolveEdits
    /\ PlaceBlock(block_pos, block_index)

ResolveRulesChanged ==
    /\ Drained(ship)
    /\ twin = NewShip
    /\ edits > 0
    /\ ship' = on_rules_changed(ship)
    /\ twin' = ship
    /\ ret' = [NoCall EXCEPT !.call = "on_rules_changed", !.pre = ship]
    /\ UNCHANGED <<rules, debug, edits, trip>>

NextResolve ==
    \/ \E block_pos \in PlacePositions, block_index \in BlockIndices :
          ResolvePlaceBlock(block_pos, block_index)
    \/ \E actions_per_tick \in Budgets : Tick(actions_per_tick)
    \/ ResolveRulesChanged

SpecResolve == Init /\ [][NextResolve]_vars

\* C34: once a drained ship on which on_rules_changed was called with the
\* rule table unchanged is drained again, node_id_bits and render_nodes of
\* every cell are what they were when on_rules_changed was called.
C34_ResolveIdempotent ==
    (twin # NewShip /\ Drained(ship)) =>
        /\ ship.node_id_bits = twin.node_id_bits
        /\ ship.render_nodes = twin.render_nodes

\* C35: the ship a tick(a + b) leaves (block grid, lists, node_id_bits,
\* render_nodes, the three queues in their order, was_reset) is the ship that
\* tick(a) followed by tick(b) leaves, for every split a + b of the budget
\* of the last call.
C35_BudgetPartition ==
    IsTick =>
        \A a \in 0..ret.budget :
            ship = tick(tick(ret.pre, rules, a, debug).ship,
                        rules, ret.budget - a, debug).ship

\* a tick of budget 2 that ran two operations of different kinds and left
\* work queued
C35_Witness ==
    /\ IsTick
    /\ ret.budget = 2
    /\ Len(ret.ops) = 2
    /\ ret.ops[1].op # ret.ops[2].op
    /\ ~Drained(ship)
    /\ tick(ret.pre, rules, 1, debug).ship # ship

(***************************************************************************)
(* The adaptive per-tick action budget of the callers of tick: Builder     *)
(* (space_ship_builder_v3) adapts it in update, Ship of                    *)
(* space_ship_builder_v2 in its own tick.  usize is modelled UsizeBits     *)
(* wide; durations are in milliseconds.  ret holds the two objects.        *)
(***************************************************************************)
UsizeBits == 6

usize_MAX == 2 ^ UsizeBits - 1

MIN_TICK_LENGTH == 20

MAX_TICK_LENGTH == 25

DeltaTimes == {19, 20, 25, 26}

\* Builder::update without the test against usize::MAX / 2
builder_update_unguarded(b, delta_time, tick_full) ==
    LET actions_per_tick ==
            IF b.full_tick /\ delta_time < MIN_TICK_LENGTH
            THEN (b.actions_per_tick * 2) % (usize_MAX + 1)
            ELSE IF delta_time > MAX_TICK_LENGTH /\ b.actions_per_tick > 4
            THEN b.actions_per_tick \div 2
            ELSE b.actions_per_tick
    IN  [actions_per_tick |-> actions_per_tick, full_tick |-> tick_full]

\* Builder::update (state ON): the budget is adapted, then full_tick takes
\* the result of the ship's tick
builder_update(b, delta_time, tick_full) ==
    LET actions_per_tick ==
            IF /\ b.full_tick
               /\ delta_time < MIN_TICK_LENGTH
               /\ b.actions_per_tick < usize_MAX \div 2
            THEN (b.actions_per_tick * 2) % (usize_MAX + 1)
            ELSE IF delta_time > MAX_TICK_LENGTH /\ b.actions_per_tick > 4
            THEN b.actions_per_tick \div 2
            ELSE b.actions_per_tick
    IN  [actions_per_tick |-> actions_per_tick, full_tick |-> tick_full]

\* Ship::tick of space_ship_builder_v2: nothing happens on an empty queue;
\* otherwise the budget is adapted after a full tick, and full_tick is set
\* by the first iteration of the loop
ship_v2_tick(b, delta_time, queued) ==
    IF ~queued THEN b
    ELSE LET actions_per_tick ==
                 IF ~b.full_tick THEN b.actions_per_tick
                 ELSE IF /\ delta_time < MIN_TICK_LENGTH
                         /\ b.actions_per_tick < usize_MAX \div 2
                 THEN (b.actions_per_tick * 2) % (usize_MAX + 1)
                 ELSE IF delta_time > MAX_TICK_LENGTH /\ b.actions_per_tick > 4
                 THEN b.actions_per_tick \div 2
                 ELSE b.actions_per_tick
         IN  [actions_per_tick |-> actions_per_tick,
              full_tick |-> actions_per_tick > 0]

InitBudget ==
    /\ rules \in RuleTables
    /\ debug = FALSE
    /\ ship = NewShip
    /\ ret = [call |-> "new", delta_time |-> 0,
              builder |-> [actions_per_tick |-> 4, full_tick |-> FALSE],
              ship_v2 |-> [actions_per_tick |-> 4, full_tick |-> FALSE],
              pre |-> [actions_per_tick |-> 4, full_tick |-> FALSE]]
    /\ edits = 0
    /\ trip = NoTrip
    /\ twin = NewShip

BuilderUpdate(delta_time, tick_full) ==
    /\ ret' = [ret EXCEPT !.call = "Builder::update", !.delta_time = delta_time,
                          !.builder = builder_update(@, delta_time, tick_full),
                          !.pre = ret.builder]
    /\ UNCHANGED <<rules, debug, ship, edits, trip, twin>>

ShipV2Tick(delta_time, queued) ==
    /\ ret' = [ret EXCEPT !.call = "Ship::tick", !.delta_time = delta_time,
                          !.ship_v2 = ship_v2_tick(@, delta_time, queued),
                          !.pre = ret.ship_v2]
    /\ UNCHANGED <<rules, debug, ship, edits, trip, twin>>

NextBudget ==
    \/ \E delta_time \in DeltaTimes, tick_full \in BOOLEAN :
          BuilderUpdate(delta_time, tick_full)
    \/ \E delta_time \in DeltaTimes, queued \in BOOLEAN :
          ShipV2Tick(delta_time, queued)

SpecBudget == InitBudget /\ [][NextBudget]_vars

\* C36: the budget of either caller is at least 4, at most usize::MAX and a
\* power of two in every reachable state; a call doubles it only after a
\* full tick, with a frame time below MIN_TICK_LENGTH and a budget below
\* usize::MAX / 2, and the doubled value is the exact product; a call halves
\* it only with a frame time above MAX_TICK_LENGTH and a budget above 4; a
\* call otherwise leaves it as it was.
C36_BudgetInRange ==
    /\ \A b \in {ret.builder, ret.ship_v2} :
            /\ b.actions_per_tick >= 4
            /\ b.actions_per_tick <= usize_MAX
            /\ \E k \in 2..(UsizeBits - 1) : b.actions_per_tick = 2 ^ k
    /\ (ret.call # "new") =>
            LET now == IF ret.call = "Builder::update" THEN ret.builder.actions_per_tick
                       ELSE ret.ship_v2.actions_per_tick
                was == ret.pre.actions_per_tick
            IN  /\ now \in {was, was * 2, was \div 2}
                /\ (now = was * 2) =>
                        /\ ret.pre.full_tick
                        /\ ret.delta_time < MIN_TICK_LENGTH
                        /\ was < usize_MAX \div 2
                /\ (now = was \div 2) =>
                        /\ ret.delta_time > MAX_TICK_LENGTH
                        /\ was > 4

\* the budget at its largest value, a full tick behind it and a short frame:
\* the call left it as it was
C36_Witness ==
    /\ ret.call = "Builder::update"
    /\ ret.pre.full_tick
    /\ ret.delta_time < MIN_TICK_LENGTH
    /\ ret.pre.actions_per_tick = 2 ^ (UsizeBits - 1)
    /\ ret.builder.actions_per_tick = ret.pre.actions_per_tick

(***************************************************************************)
(* Chunk::add_particle of astrinder.  A chunk holds its parts (position,   *)
(* id, particles by in-part index), its mass, its particle counter and the *)
(* sum of its particle positions.  The part-id pool, the hex conversions   *)
(* and the part size come from modules the chunk imports: the pool hands   *)
(* out each free id once, a part covers CHUNK_PART_SIZE hex positions per  *)
(* axis.  Masses are whole numbers; ret holds the chunk and the pool.      *)
(***************************************************************************)
MaxPartIds == 2

MaxParticles == 3

CHUNK_PART_SIZE == 2

\* PartIdCounter::pop_free
pop_free(part_id_counter) ==
    IF part_id_counter = <<>> THEN [some |-> FALSE, id |-> 0, rest |-> part_id_counter]
    ELSE [some |-> TRUE, id |-> Head(part_id_counter), rest |-> Tail(part_id_counter)]

\* Chunk::add_particle with the bookkeeping done before the pool is asked
add_particle_counts_first(c, part_id_counter, p, hex_pos) ==
    LET hex_to_chunk_part_pos == <<hex_pos[1] \div CHUNK_PART_SIZE,
                                   hex_pos[2] \div CHUNK_PART_SIZE>>
        hex_to_particle_index == (hex_pos[1] % CHUNK_PART_SIZE) * CHUNK_PART_SIZE
                                    + (hex_pos[2] % CHUNK_PART_SIZE)
        found   == {k \in 1..Len(c.parts) : c.parts[k].pos = hex_to_chunk_part_pos}
        part_id == pop_free(part_id_counter)
        counted == [c EXCEPT !.mass = @ + p,
                             !.particle_pos_sum = <<@[1] + hex_pos[1], @[2] + hex_pos[2]>>,
                             !.particle_counter = @ + 1]
    IN  IF found = {} /\ ~part_id.some
        THEN [chunk |-> counted, part_id_counter |-> part_id.rest]
        ELSE LET new_part == [pos |-> hex_to_chunk_part_pos, id |-> part_id.id,
                              particles |-> [i \in 0..(CHUNK_PART_SIZE * CHUNK_PART_SIZE - 1) |-> 0]]
                 parts == IF found = {} THEN Append(c.parts, new_part) ELSE c.parts
                 k     == IF found = {} THEN Len(parts) ELSE CHOOSE j \in found : \A i \in found : j <= i
             IN  [chunk |-> [counted EXCEPT
                                !.parts = [parts EXCEPT ![k].particles[hex_to_particle_index] = p]],
                  part_id_counter |-> IF found = {} THEN part_id.rest ELSE part_id_counter]

\* Chunk::add_particle: the chunk and the pool after the call
add_particle(c, part_id_counter, p, hex_pos) ==
    LET hex_to_chunk_part_pos == <<hex_pos[1] \div CHUNK_PART_SIZE,
                                   hex_pos[2] \div CHUNK_PART_SIZE>>
        hex_to_particle_index == (hex_pos[1] % CHUNK_PART_SIZE) * CHUNK_PART_SIZE
                                    + (hex_pos[2] % CHUNK_PART_SIZE)
        found   == {k \in 1..Len(c.parts) : c.parts[k].pos = hex_to_chunk_part_pos}
        part_id == pop_free(part_id_counter)
    IN  IF found = {} /\ ~part_id.some
        THEN [chunk |-> c, part_id_counter |-> part_id.rest]
        ELSE LET new_part == [pos |-> hex_to_chunk_part_pos, id |-> part_id.id,
                              particles |-> [i \in 0..(CHUNK_PART_SIZE * CHUNK_PART_SIZE - 1) |-> 0]]
                 parts == IF found = {} THEN Append(c.parts, new_part) ELSE c.parts
                 k     == IF found = {} THEN Len(parts) ELSE CHOOSE j \in found : \A i \in found : j <= i
             IN  [chunk |-> [c EXCEPT
                                !.parts = [parts EXCEPT ![k].particles[hex_to_particle_index] = p],
                                !.mass = @ + p,
                                !.particle_pos_sum = <<@[1] + hex_pos[1], @[2] + hex_pos[2]>>,
                                !.particle_counter = @ + 1],
                  part_id_counter |-> IF found = {} THEN part_id.rest ELSE part_id_counter]

\* a chunk without particles and a pool of MaxPartIds free ids
InitChunk ==
    /\ rules \in RuleTables
    /\ debug = FALSE
    /\ ship = NewShip
    /\ ret = LET c == [parts |-> <<>>, mass |-> 0, particle_counter |-> 0,
                       particle_pos_sum |-> <<0, 0>>]
             IN  [call |-> "new", chunk |-> c, part_id_counter |-> [i \in 1..MaxPartIds |-> i],
                  p |-> 0, hex_pos |-> <<0, 0>>, calls |-> 0, dropped |-> 0,
                  pre |-> c, pre_counter |-> [i \in 1..MaxPartIds |-> i]]
    /\ edits = 0
    /\ trip = NoTrip
    /\ twin = NewShip

AddParticle(p, hex_pos) ==
    /\ ret.calls < MaxParticles
    /\ LET res == add_particle(ret.chunk, ret.part_id_counter, p, hex_pos)
       IN  ret' = [call |-> "add_particle", chunk |-> res.chunk,
                   part_id_counter |-> res.part_id_counter,
                   p |-> p, hex_pos |-> hex_pos, calls |-> ret.calls + 1,
                   dropped |-> IF Len(res.chunk.parts) = Len(ret.chunk.parts)
                                  /\ res.chunk.particle_counter = ret.chunk.particle_counter
                               THEN ret.dropped + 1 ELSE ret.dropped,
                   pre |-> ret.chunk, pre_counter |-> ret.part_id_counter]
    /\ UNCHANGED <<rules, debug, ship, edits, trip, twin>>

NextChunk ==
    \E p \in 1..2, x \in 0..((MaxPartIds + 1) * CHUNK_PART_SIZE - 1), y \in 0..1 :
        AddParticle(p, <<x, y>>)

SpecChunk == InitChunk /\ [][NextChunk]_vars

\* C37: an add_particle call whose part position has no part yet, made when
\* the part-id pool has no free id, returns with the chunk as it was (no
\* part added, mass, particle counter and particle position sum unchanged)
\* and the pool still empty; a call on a position whose part exists, also
\* after such a drop, stores the particle and counts it.
C37_ExhaustionDrops ==
    (ret.call = "add_particle") =>
        LET part_pos == <<ret.hex_pos[1] \div CHUNK_PART_SIZE,
                          ret.hex_pos[2] \div CHUNK_PART_SIZE>>
            had_part == \E k \in 1..Len(ret.pre.parts) : ret.pre.parts[k].pos = part_pos
        IN  /\ (~had_part /\ ret.pre_counter = <<>>) =>
                    /\ ret.chunk = ret.pre
                    /\ ret.part_id_counter = <<>>
            /\ had_part =>
                    /\ ret.chunk.particle_counter = ret.pre.particle_counter + 1
                    /\ ret.chunk.mass = ret.pre.mass + ret.p
                    /\ Len(ret.chunk.parts) = Len(ret.pre.parts)
                    /\ \E k \in 1..Len(ret.chunk.parts) :
                            /\ ret.chunk.parts[k].pos = part_pos
                            /\ ret.p \in {ret.chunk.parts[k].particles[i] :
                                               i \in DOMAIN ret.chunk.parts[k].particles}

\* a call dropped on the exhausted pool: the chunk holds MaxPartIds parts and
\* particles, and the call targeted a position outside all of them
C37_Witness ==
    /\ ret.call = "add_particle"
    /\ ret.pre_counter = <<>>
    /\ Len(ret.pre.parts) = MaxPartIds
    /\ ret.pre.particle_counter > 0
    /\ \A k \in 1..Len(ret.pre.parts) :
            ret.pre.parts[k].pos # <<ret.hex_pos[1] \div CHUNK_PART_SIZE,
                                     ret.hex_pos[2] \div CHUNK_PART_SIZE>>
    /\ ret.chunk = ret.pre

\* C38: in every reachable state, for every cell that is not a member of
\* to_collapse, node_id_bits holds the packed identity collapse would choose
\* from the cell's stored list (the empty identity for an empty or
\* not-yet-computed list) and the render-occupancy flag is true exactly when
\* that identity is not empty; on a drained ship this holds for all cells.
C38_OutputsAgreeWithLists ==
    \A i \in CellIndices :
        ~contains(ship.to_collapse, to_world_node_index(0, i)) =>
            /\ ship.node_id_bits[i] = CollapsedBits(take_or_empty(ship.nodes[i]))
            /\ ship.render_nodes[node_index_to_node_index_plus_padding(i)]
                  <=> (CollapsedBits(take_or_empty(ship.nodes[i])) # NodeBits(none))

\* a cell with a resolved identity that is reset with a change, leaves
\* to_collapse again and holds the identity chosen from its new list, while
\* another cell is still queued to collapse
C38_Witness ==
    /\ IsTick
    /\ ship.to_collapse # <<>>
    /\ \E i \in CellIndices :
            /\ ~contains(ship.to_collapse, to_world_node_index(0, i))
            /\ \E j \in OpsOf("collapse") : ret.ops[j].cell = to_world_node_index(0, i)
            /\ ret.pre.node_id_bits[i] # ship.node_id_bits[i]
            /\ ship.node_id_bits[i] # NodeBits(none)
            /\ Len(ship.nodes[i].list) >= 2

\* a budget that drains the ship after one edit in a single tick
DrainBudget == 40

\* the caller's loop: tick until no work is left
drain(s, r) == tick(s, r, DrainBudget, FALSE).ship

\* the ship that holds the block grid of s after the shortest history: from
\* a new ship, one place_block per in-chunk block position in a fixed order,
\* each followed by a full drain
DirectlyBuilt(s, r) ==
    LET s1 == drain(place_block(NewShip, r, IVec3(0, 0, 0), BlockAt(s, IVec3(0, 0, 0))).ship, r)
        s2 == drain(place_block(s1, r, IVec3(1, 0, 0), BlockAt(s, IVec3(1, 0, 0))).ship, r)
    IN  s2

\* C39: the node_id_bits of a ship drained after each of its place_block
\* calls are those of the ship built directly to the same block grid: they
\* depend on the grid and the rule table only, not on the order of the
\* calls or on intermediate edits.
C39_HistoryIndependence ==
    (Drained(ship) /\ twin = NewShip) =>
        /\ Drained(DirectlyBuilt(ship, rules))
        /\ DirectlyBuilt(ship, rules).blocks = ship.blocks
        /\ ship.node_id_bits = DirectlyBuilt(ship, rules).node_id_bits

(***************************************************************************)
(* A rule table with two block-requirement alternatives for one identity.  *)
(***************************************************************************)
\* TableE: X0 sits on a block 1; X3 and V sit right of a block 1.  V has two
\* alternatives: the plain one, and with higher priority than X3 the one
\* that also finds no block beyond the cell.  No node requirements.
TableE ==
    RuleTable(
        <<X0, X3, V>>,
        << <<Alt(<< <<IVec3(0, 0, 0), 1>> >>, 1)>>,
           <<Alt(<< <<IVec3(-1, 0, 0), 1>> >>, 2)>>,
           <<Alt(<< <<IVec3(-1, 0, 0), 1>> >>, 1),
             Alt(<< <<IVec3(-1, 0, 0), 1>>, <<IVec3(1, 0, 0), BLOCK_INDEX_EMPTY>> >>, 3)>> >>,
        << << >>, << >>, << >> >>)

InitPrio ==
    /\ rules = TableE
    /\ debug = FALSE
    /\ ship = NewShip
    /\ ret = NoCall
    /\ edits = 0
    /\ trip = NoTrip
    /\ twin = NewShip

SpecPrio == InitPrio /\ [][NextResolve]_vars

\* C40: the priority a reset or a propagate stores with an identity in the
\* cell's list is the highest priority among the block-requirement
\* alternatives of that identity that the current block grid satisfies at
\* the cell.
C40_RecordedPriorityIsMax ==
    (OneOp("reset") \/ OneOp("propergate")) =>
        \A t \in 1..Len(ship.nodes[OpCell].list) :
            \A k \in 1..Len(rules.map_rules_index_to_node_id) :
                rules.map_rules_index_to_node_id[k] = ship.nodes[OpCell].list[t][1] =>
                    LET sat == {j \in 1..Len(rules.block_rules[k]) :
                                   GridSatisfies(pos_from_world_node_index(0, OpCell),
                                                 rules.block_rules[k][j].req)}
                    IN  /\ \E j \in sat :
                              rules.block_rules[k][j].prio = ship.nodes[OpCell].list[t][2]
                        /\ \A j \in sat :
                              rules.block_rules[k][j].prio <= ship.nodes[OpCell].list[t][2]

====
